---- MODULE Spec2Model ----
(***************************************************************************)
(* A model of the file sampling and encoding pipeline of the AI Training   *)
(* Code Sampler: the exclusion filter and the sampler of                   *)
(* src/lib/sampling-utils.ts, the JSONL encoder, the repository stats and  *)
(* the archive extraction of src/lib/encoding-utils.ts, and the upload and *)
(* download handlers that chain them.                                      *)
(*                                                                         *)
(* Strings are TLA+ strings handled character by character (Len, SubSeq    *)
(* and \o), so that split, lastIndexOf, slice, toLowerCase and startsWith  *)
(* are computed the way the JavaScript built-ins compute them.             *)
(***************************************************************************)
EXTENDS Integers, Sequences, FiniteSets, TLC

VARIABLES
    files,      \* sampler: the FileEntry[] argument
    options,    \* sampler: the SamplingOptions after destructuring
    result,     \* sampler: the SamplingResult, NoResult before the call
    segs,       \* filter: the segments the path argument is made of
    path,       \* filter: the path argument
    verdict,    \* filter: the values returned for path, NoVerdict before
    selectedFiles,  \* encoder: the files argument (the sampled files)
    allFiles,       \* encoder: the allFiles argument
    encodeOptions,  \* encoder: the EncodingOptions argument
    encoded,        \* encoder: the EncodingResult of each call so far
    now,            \* the clock new Date() reads
    repoStats,      \* stats: the RepositoryStats returned, none before the call
    archive,        \* upload: the File dropped on the landing page
    extraction,     \* upload: the ZipExtractionResult, none before the upload
    zipState,       \* upload: the state of useZipHandler
    uploadResult,   \* upload: how the promise of handleZipUpload settled, none before
    route,          \* the page shown and the state it was navigated to with
    deletedFiles,   \* editor: the paths deleted in the file tree
    download,       \* download: the state of useCombinedDownload
    saved,          \* download: what downloadZip was called with
    runs,           \* download: the invocations of downloadAll, with their locals
    current,        \* download: the invocation that is executing, 0 if none is
    modifiedFiles,  \* editor: the edited content of each edited path
    showSubmissionModal  \* editor: whether the submission modal is open

encoderVars == <<selectedFiles, allFiles, encodeOptions, encoded, now>>

pipelineVars == <<archive, extraction, zipState, uploadResult, route, deletedFiles,
                  download, saved>>

sessionVars == <<runs, current, modifiedFiles, showSubmissionModal>>

vars == <<files, options, result, segs, path, verdict, encoderVars, repoStats,
          pipelineVars, sessionVars>>

\* ------------------------------------------------------------------ bounds

\* the longest file list given to the sampler
MaxInput == 3
\* the largest maxFiles given to the sampler
MaxBudget == 2
\* the largest number of '/'-separated segments of a path given to the filter
MaxDepth == 3
\* the longest file list of the three-language scenario
MaxScenarioInput == 6
\* the largest maxFiles of the three-language scenario
MaxScenarioBudget == 5
\* longest list given to filterCodeFiles
MaxFilterInput == 3
\* longest list given to the encoder, as files and as allFiles
MaxEncoderInput == 2
\* longest list given to calculateRepositoryStats
MaxStatsInput == 3
\* largest lineCount of a file given to calculateRepositoryStats
MaxLines == 2
\* largest number of entries of an uploaded archive
MaxArchiveEntries == 3
\* largest number of invocations of downloadAll on one hook instance
MaxRuns == 2
\* longest list the four functions of the pipeline are called on in turn
MaxCallInput == 2

\* the largest number of paths with an edit in one editor session
MaxEditedPaths == 1

\* ------------------------------------------------------- JavaScript strings

CharAt(s, i) == SubSeq(s, i, i)

Min(a, b) == IF a <= b THEN a ELSE b

\* Math.ceil(a / b) for integers a >= 0, b > 0
Ceil(a, b) == (a + b - 1) \div b

\* the strings of strs[lo..hi] put together, by halves
RECURSIVE ConcatRange(_, _, _)
ConcatRange(strs, lo, hi) ==
    IF lo > hi THEN ""
    ELSE IF lo = hi THEN strs[lo]
    ELSE LET mid == (lo + hi) \div 2
         IN  ConcatRange(strs, lo, mid) \o ConcatRange(strs, mid + 1, hi)

Concat(strs) == ConcatRange(strs, 1, Len(strs))

\* the positions of the separator in s, and the k-th of them
SeparatorsOf(s, sep) == { i \in 1..Len(s) : CharAt(s, i) = sep }

NthOf(positions, k) ==
    CHOOSE i \in positions : Cardinality({ j \in positions : j < i }) = k - 1

\* the pieces of s from position from on, cut at each separator
RECURSIVE SplitFrom(_, _, _)
SplitFrom(s, sep, from) ==
    LET rest == { i \in from..Len(s) : CharAt(s, i) = sep }
    IN  IF rest = {} THEN << SubSeq(s, from, Len(s)) >>
        ELSE LET next == CHOOSE i \in rest : \A j \in rest : i <= j
             IN  << SubSeq(s, from, next - 1) >> \o SplitFrom(s, sep, next + 1)

\* String.prototype.split(sep) for a one-character separator
Split(s, sep) == SplitFrom(s, sep, 1)

RECURSIVE LastIndexFrom(_, _, _)
LastIndexFrom(s, c, i) ==
    IF i = 0 THEN -1
    ELSE IF CharAt(s, i) = c THEN i - 1
         ELSE LastIndexFrom(s, c, i - 1)

\* String.prototype.lastIndexOf(c): the 0-based index, -1 when absent
LastIndexOf(s, c) == LastIndexFrom(s, c, Len(s))

\* String.prototype.slice(from) for 0 <= from <= length
Slice(s, from) == SubSeq(s, from + 1, Len(s))

UpperChars == "ABCDEFGHIJKLMNOPQRSTUVWXYZ"
LowerChars == "abcdefghijklmnopqrstuvwxyz"

\* the lower-case letter of each upper-case letter
LowerOf ==
    [c \in {CharAt(UpperChars, i) : i \in 1..Len(UpperChars)} |->
        CharAt(LowerChars, CHOOSE i \in 1..Len(UpperChars) : CharAt(UpperChars, i) = c)]

LowerChar(c) == IF c \in DOMAIN LowerOf THEN LowerOf[c] ELSE c

RECURSIVE ToLowerCase(_)
ToLowerCase(s) ==
    IF Len(s) = 0 THEN ""
    ELSE LowerChar(CharAt(s, 1)) \o ToLowerCase(SubSeq(s, 2, Len(s)))

\* String.prototype.startsWith(p)
StartsWith(s, p) == Len(s) >= Len(p) /\ SubSeq(s, 1, Len(p)) = p

\* Array.prototype.pop() of a non-empty array: its last element
Last(seq) == seq[Len(seq)]

\* --------------------------------------------------------- exclusion filter

BINARY_EXTENSIONS == {
    ".png", ".jpg", ".jpeg", ".gif", ".bmp", ".svg", ".ico", ".webp",
    ".pdf", ".doc", ".docx", ".xls", ".xlsx", ".ppt", ".pptx",
    ".zip", ".tar", ".gz", ".7z", ".rar", ".bz2", ".xz",
    ".mp3", ".mp4", ".avi", ".mov", ".wav", ".flac", ".ogg", ".webm", ".mkv",
    ".class", ".jar", ".war", ".ear", ".jmod",
    ".exe", ".dll", ".pdb", ".nupkg", ".msi", ".vsix",
    ".o", ".obj", ".so", ".a", ".lib", ".dylib", ".exp", ".out",
    ".pyc", ".pyo", ".pyd", ".whl", ".egg",
    ".framework", ".app", ".ipa", ".dsym", ".xcarchive",
    ".test",
    ".rlib", ".rmeta",
    ".node", ".wasm",
    ".deb", ".rpm", ".apk", ".aab", ".dmg", ".pkg", ".iso",
    ".db", ".sqlite", ".sqlite3",
    ".ttf", ".otf", ".woff", ".woff2", ".eot",
    ".bin", ".dat", ".pak" }

EXCLUDED_DIR_PATTERNS == {
    "node_modules", "__pycache__", ".git", "venv", ".venv", "env",
    "dist", "build", ".idea", ".vscode", "target", ".pytest_cache",
    ".mypy_cache", ".tox", "htmlcov", ".coverage", "coverage_html_report",
    ".svn", ".hg", ".eggs", ".hypothesis", ".ruff_cache" }

EXCLUDED_FILES == { ".DS_Store", "Thumbs.db", "desktop.ini", ".localized" }

CODE_FILE_EXTENSIONS == {
    ".go", ".rs", ".kt", ".kts", ".lua", ".m", ".mat", ".mlx", ".mm", ".dart",
    ".asm", ".s", ".S", ".rb", ".rake", ".gemspec", ".swift",
    ".r", ".R", ".rmd", ".Rmd",
    ".cpp", ".cc", ".cxx", ".c++", ".hpp", ".hh", ".hxx", ".h++",
    ".c", ".h", ".ts", ".tsx", ".mts", ".cts", ".js", ".jsx", ".mjs", ".cjs",
    ".py", ".pyw", ".pyi", ".java", ".cs", ".php", ".scala", ".sc",
    ".sh", ".bash", ".zsh", ".fish", ".sql", ".pl", ".pm", ".hs", ".lhs",
    ".ex", ".exs", ".erl", ".hrl", ".clj", ".cljs", ".cljc", ".edn",
    ".fs", ".fsx", ".fsi", ".ml", ".mli", ".groovy", ".gvy", ".gy", ".gsh",
    ".zig", ".nim", ".nims", ".v", ".jl",
    ".f", ".for", ".f90", ".f95", ".f03", ".f08", ".cob", ".cbl",
    ".adb", ".ads", ".pas", ".pp", ".pro", ".lisp", ".lsp", ".cl",
    ".scm", ".ss", ".rkt", ".d", ".cr" }

\* getFileExtension without the lowercasing
getFileExtensionCaseKept(filename) ==
    LET lastDot == LastIndexOf(filename, ".")
    IN  IF lastDot = -1 THEN "" ELSE Slice(filename, lastDot)

getFileExtension(filename) ==
    LET lastDot == LastIndexOf(filename, ".")
    IN  IF lastDot = -1 THEN "" ELSE ToLowerCase(Slice(filename, lastDot))

isCodeFile(filename) == getFileExtension(filename) \in CODE_FILE_EXTENSIONS

shouldExcludeDir(dirName) == dirName \in EXCLUDED_DIR_PATTERNS

\* the loop of shouldExcludePath from index i (0-based) on
RECURSIVE ExcludePathFrom(_, _)
ExcludePathFrom(pathParts, i) ==
    IF i < Len(pathParts) - 1
    THEN IF shouldExcludeDir(pathParts[i + 1]) THEN TRUE
         ELSE ExcludePathFrom(pathParts, i + 1)
    ELSE FALSE

\* shouldExcludePath looking at the last segment too (i < pathParts.length)
shouldExcludePathAllParts(p) ==
    \E i \in 1..Len(Split(p, "/")) : shouldExcludeDir(Split(p, "/")[i])

shouldExcludePath(p) == ExcludePathFrom(Split(p, "/"), 0)

\* shouldExcludeFile applied to the whole path instead of the file name
shouldExcludeFileWholePath(filepath) ==
    \/ filepath \in EXCLUDED_FILES
    \/ StartsWith(filepath, "._")
    \/ getFileExtension(filepath) \in BINARY_EXTENSIONS

shouldExcludeFile(filepath) ==
    LET popped   == Last(Split(filepath, "/"))
        \* pop() || filepath: the empty string is falsy
        filename == IF popped = "" THEN filepath ELSE popped
    IN  IF filename \in EXCLUDED_FILES THEN TRUE
        ELSE IF StartsWith(filename, "._") THEN TRUE
        ELSE getFileExtension(filename) \in BINARY_EXTENSIONS

\* filterCodeFiles keeping the files under excluded directories
filterCodeFilesFileOnly(fs) ==
    SelectSeq(fs, LAMBDA file : ~shouldExcludeFile(file.path))

filterCodeFiles(fs) ==
    SelectSeq(fs, LAMBDA file :
        IF shouldExcludePath(file.path) THEN FALSE
        ELSE ~shouldExcludeFile(file.path))

\* ---------------------------------------------------------------- classifier

\* Part of the extension table of lib/language-utils (the lookup is the one
\* getMonacoLanguageId makes: EXTENSION_TO_LANGUAGE[extension] || 'Unknown').
EXTENSION_TO_LANGUAGE ==
    [e \in {".py", ".pyw", ".js", ".jsx", ".ts", ".tsx", ".go", ".md"} |->
        CASE e \in {".py", ".pyw"} -> "Python"
          [] e \in {".js", ".jsx"} -> "JavaScript"
          [] e \in {".ts", ".tsx"} -> "TypeScript"
          [] e = ".go"             -> "Go"
          [] e = ".md"             -> "Markdown"]

detectLanguage(filename) ==
    LET ext == getFileExtension(filename)
    IN  IF ext \in DOMAIN EXTENSION_TO_LANGUAGE
        THEN EXTENSION_TO_LANGUAGE[ext] ELSE "Unknown"

\* ------------------------------------------------------------------- sampler

DefaultMaxFiles == 1000
DefaultMaxPerLanguage == 100

\* sampleCodeFiles(files) with options omitted: every default applies
DefaultOptions ==
    [maxFiles |-> DefaultMaxFiles, maxPerLanguage |-> DefaultMaxPerLanguage,
     prioritizeDiversity |-> TRUE, priorityLanguages |-> <<>>]

\* the keys of the Map built by groupFilesByLanguage, in insertion order
RECURSIVE LanguageKeys(_, _)
LanguageKeys(fs, seen) ==
    IF fs = <<>> THEN <<>>
    ELSE LET file == Head(fs)
             language == detectLanguage(file.path)
         IN  IF file.isDirectory \/ ~isCodeFile(file.path)
             THEN LanguageKeys(Tail(fs), seen)
             ELSE IF language \in seen
                  THEN LanguageKeys(Tail(fs), seen)
                  ELSE <<language>> \o LanguageKeys(Tail(fs), seen \cup {language})

\* the Map<string, FileEntry[]>: its keys in insertion order and its values
groupFilesByLanguage(fs) ==
    LET keys == LanguageKeys(fs, {})
    IN  [keys   |-> keys,
         values |-> [language \in {keys[i] : i \in 1..Len(keys)} |->
                        SelectSeq(fs, LAMBDA file :
                            /\ ~file.isDirectory
                            /\ isCodeFile(file.path)
                            /\ detectLanguage(file.path) = language)]]

\* Map.get(lang) || []
GroupGet(groups, lang) ==
    IF lang \in DOMAIN groups.values THEN groups.values[lang] ELSE <<>>

\* the Record<string, number> built by calculateLanguageDistribution
calculateLanguageDistribution(fs) ==
    LET counted == SelectSeq(fs, LAMBDA file : ~file.isDirectory)
    IN  [language \in {detectLanguage(counted[i].path) : i \in 1..Len(counted)} |->
            Len(SelectSeq(counted, LAMBDA file : detectLanguage(file.path) = language))]

\* the inner loop without its sampledPaths test
RECURSIVE TakeLoopNoPathTest(_, _, _, _, _)
TakeLoopNoPathTest(langFiles, toSample, i, maxFiles, st) ==
    IF i < toSample /\ Len(st.samples) < maxFiles
    THEN TakeLoopNoPathTest(langFiles, toSample, i + 1, maxFiles,
            [samples      |-> Append(st.samples, langFiles[i + 1]),
             sampledPaths |-> st.sampledPaths \cup {langFiles[i + 1].path}])
    ELSE st

\* the inner loop without its samples.length < maxFiles test
RECURSIVE TakeLoopNoBudgetTest(_, _, _, _, _)
TakeLoopNoBudgetTest(langFiles, toSample, i, maxFiles, st) ==
    IF i < toSample
    THEN TakeLoopNoBudgetTest(langFiles, toSample, i + 1, maxFiles,
            IF langFiles[i + 1].path \notin st.sampledPaths
            THEN [samples      |-> Append(st.samples, langFiles[i + 1]),
                  sampledPaths |-> st.sampledPaths \cup {langFiles[i + 1].path}]
            ELSE st)
    ELSE st

\* for (let i = 0; i < toSample && samples.length < maxFiles; i++) { ... }
\* st holds the two accumulators, samples and sampledPaths
RECURSIVE TakeLoop(_, _, _, _, _)
TakeLoop(langFiles, toSample, i, maxFiles, st) ==
    IF i < toSample /\ Len(st.samples) < maxFiles
    THEN TakeLoop(langFiles, toSample, i + 1, maxFiles,
            IF langFiles[i + 1].path \notin st.sampledPaths
            THEN [samples      |-> Append(st.samples, langFiles[i + 1]),
                  sampledPaths |-> st.sampledPaths \cup {langFiles[i + 1].path}]
            ELSE st)
    ELSE st

\* the first pass with Math.floor in place of Math.ceil
PriorityToSampleFloor(langFiles, opts, groups) ==
    IF Len(groups.keys) = 0 THEN 0
    ELSE Min(Len(langFiles),
             Min(opts.maxPerLanguage, opts.maxFiles \div Len(groups.keys)))

\* the first pass capped by maxPerLanguage alone
PriorityToSampleNoShare(langFiles, opts, groups) ==
    Min(Len(langFiles), opts.maxPerLanguage)

\* the first pass without the maxPerLanguage cap
PriorityToSampleNoCap(langFiles, opts, groups) ==
    IF Len(groups.keys) = 0 THEN 0
    ELSE Min(Len(langFiles), Ceil(opts.maxFiles, Len(groups.keys)))

\* Math.min(langFiles.length, maxPerLanguage, Math.ceil(maxFiles / languageGroups.size))
\* With no language group the division gives NaN or Infinity and raises
\* nothing: langFiles is [], so the minimum is 0 or NaN and the loop that
\* follows does not run, as for 0.
PriorityToSample(langFiles, opts, groups) ==
    IF Len(groups.keys) = 0 THEN 0
    ELSE Min(Len(langFiles),
             Min(opts.maxPerLanguage, Ceil(opts.maxFiles, Len(groups.keys))))

\* the first pass visiting priorityLanguages from its last entry to its first
RECURSIVE PriorityPassBackwards(_, _, _, _)
PriorityPassBackwards(groups, opts, k, st) ==
    IF k > Len(opts.priorityLanguages) THEN st
    ELSE LET langFiles == GroupGet(groups,
                              opts.priorityLanguages[Len(opts.priorityLanguages) - k + 1])
             toSample  == PriorityToSample(langFiles, opts, groups)
         IN  PriorityPassBackwards(groups, opts, k + 1,
                 TakeLoop(langFiles, toSample, 0, opts.maxFiles, st))

\* first pass: for (const lang of priorityLanguages), from index k (1-based) on
RECURSIVE PriorityPass(_, _, _, _)
PriorityPass(groups, opts, k, st) ==
    IF k > Len(opts.priorityLanguages) THEN st
    ELSE LET langFiles == GroupGet(groups, opts.priorityLanguages[k])
             toSample  == PriorityToSample(langFiles, opts, groups)
         IN  PriorityPass(groups, opts, k + 1,
                 TakeLoop(langFiles, toSample, 0, opts.maxFiles, st))

\* second pass: for (const lang of remainingLanguages), from index k on
RECURSIVE RemainingPass(_, _, _, _, _, _)
RemainingPass(groups, opts, remainingLanguages, slotsPerLanguage, k, st) ==
    IF k > Len(remainingLanguages) THEN st
    ELSE LET langFiles == GroupGet(groups, remainingLanguages[k])
             toSample  == Min(Len(langFiles), Min(opts.maxPerLanguage, slotsPerLanguage))
         IN  RemainingPass(groups, opts, remainingLanguages, slotsPerLanguage, k + 1,
                 TakeLoop(langFiles, toSample, 0, opts.maxFiles, st))

\* the branch taken when prioritizeDiversity is true
DiversitySample(groups, opts) ==
    LET first == PriorityPass(groups, opts, 1, [samples |-> <<>>, sampledPaths |-> {}])
        remainingSlots == opts.maxFiles - Len(first.samples)
        priority == {opts.priorityLanguages[i] : i \in 1..Len(opts.priorityLanguages)}
        remainingLanguages == SelectSeq(groups.keys, LAMBDA lang : lang \notin priority)
    IN  IF Len(remainingLanguages) > 0 /\ remainingSlots > 0
        THEN RemainingPass(groups, opts, remainingLanguages,
                 Ceil(remainingSlots, Len(remainingLanguages)), 1, first)
        ELSE first

\* the truncation loop without its sampledPaths.add
RECURSIVE TruncateLoopNoPaths(_, _, _)
TruncateLoopNoPaths(codeFiles, maxFiles, st) ==
    IF codeFiles = <<>> \/ Len(st.samples) >= maxFiles THEN st
    ELSE TruncateLoopNoPaths(Tail(codeFiles), maxFiles,
            [samples      |-> Append(st.samples, Head(codeFiles)),
             sampledPaths |-> st.sampledPaths])

\* the branch taken when prioritizeDiversity is false: the first maxFiles files
RECURSIVE TruncateLoop(_, _, _)
TruncateLoop(codeFiles, maxFiles, st) ==
    IF codeFiles = <<>> \/ Len(st.samples) >= maxFiles THEN st
    ELSE TruncateLoop(Tail(codeFiles), maxFiles,
            [samples      |-> Append(st.samples, Head(codeFiles)),
             sampledPaths |-> st.sampledPaths \cup {Head(codeFiles).path}])

\* the early-return test written with < instead of <=
WithinLimitStrict(codeFiles, opts) == Len(codeFiles) < opts.maxFiles

\* if (codeFiles.length <= maxFiles)
WithinLimit(codeFiles, opts) == Len(codeFiles) <= opts.maxFiles

sampleCodeFiles(fs, opts) ==
    LET codeFiles == SelectSeq(fs, LAMBDA f : ~f.isDirectory /\ isCodeFile(f.path))
    IN  IF WithinLimit(codeFiles, opts)
        THEN [samples   |-> codeFiles,
              remaining |-> <<>>,
              stats     |-> [totalFiles   |-> Len(codeFiles),
                             sampledFiles |-> Len(codeFiles),
                             languageDistribution |->
                                 calculateLanguageDistribution(codeFiles)]]
        ELSE LET languageGroups == groupFilesByLanguage(codeFiles)
                 st == IF opts.prioritizeDiversity
                       THEN DiversitySample(languageGroups, opts)
                       ELSE TruncateLoop(codeFiles, opts.maxFiles,
                                [samples |-> <<>>, sampledPaths |-> {}])
                 remaining == SelectSeq(codeFiles, LAMBDA f : f.path \notin st.sampledPaths)
             IN  [samples   |-> st.samples,
                  remaining |-> remaining,
                  stats     |-> [totalFiles   |-> Len(codeFiles),
                                 sampledFiles |-> Len(st.samples),
                                 languageDistribution |->
                                     calculateLanguageDistribution(st.samples)]]

\* ------------------------------------------------------------------- inputs

\* file names by position in the list: a list never holds a path twice
\* (extractZipFile takes its entries from the keys of one object)
BaseNames == <<"a", "b", "c", "d", "e", "f", "g", "h">>

FileEntry(p, isDir) ==
    [path |-> p,
     name |-> IF Last(Split(p, "/")) = "" THEN p ELSE Last(Split(p, "/")),
     content |-> "", isDirectory |-> isDir, lineCount |-> 1]

\* what an entry of the input list can be: a file of one of three languages,
\* a file that is no code file, a directory whose name looks like a code file
EntryKinds ==
    { [suffix |-> ".py", isDirectory |-> FALSE],
      [suffix |-> ".js", isDirectory |-> FALSE],
      [suffix |-> ".ts", isDirectory |-> FALSE],
      [suffix |-> ".md", isDirectory |-> FALSE],
      [suffix |-> ".py", isDirectory |-> TRUE] }

ScenarioKinds ==
    { k \in EntryKinds : ~k.isDirectory /\ k.suffix \in {".py", ".js", ".ts"} }

FileListsOf(kinds, maxLen) ==
    UNION { { [i \in 1..n |-> FileEntry(BaseNames[i] \o ks[i].suffix, ks[i].isDirectory)]
              : ks \in [1..n -> kinds] } : n \in 0..maxLen }

\* none, one, one named twice, two, and one no file of the lists belongs to
PriorityChoices ==
    { <<>>, <<"Python">>, <<"Python", "Python">>, <<"JavaScript", "Python">>, <<"Go">> }

SamplerOptionSets ==
    [maxFiles : 0..MaxBudget,
     maxPerLanguage : {0, 1, 2, DefaultMaxPerLanguage},
     prioritizeDiversity : BOOLEAN,
     priorityLanguages : PriorityChoices] \cup {DefaultOptions}

\* the options downloadAll passes, its maxFiles of 5000 scaled down
ScenarioOptionSets ==
    [maxFiles : 0..MaxScenarioBudget,
     maxPerLanguage : {DefaultMaxPerLanguage},
     prioritizeDiversity : {TRUE},
     priorityLanguages : {<<"Python">>}]

SegmentNames ==
    { "node_modules", "Node_Modules", "src", ".git", "build", "image.PNG",
      ".DS_Store", "._lib.js", "README.md", "lib.js", "", "a.tar.gz",
      "Makefile", "desktop.ini" }

RECURSIVE Join(_, _)
Join(parts, sep) ==
    IF parts = <<>> THEN ""
    ELSE IF Len(parts) = 1 THEN parts[1]
    ELSE parts[1] \o sep \o Join(Tail(parts), sep)

NoVerdict == [byPath |-> <<>>, byFile |-> <<>>]

SamplerIdle == files = <<>> /\ options = DefaultOptions /\ result = <<>>
FilterIdle  == segs = <<"">> /\ path = "" /\ verdict = NoVerdict
EncoderIdle ==
    /\ selectedFiles = <<>> /\ allFiles = <<>>
    /\ encodeOptions = [repoName |-> <<>>]
    /\ encoded = <<>> /\ now = 0
StatsIdle == repoStats = <<>>

\* ------------------------------------------------------------------- encoder

\* the record with the time of the call in it
createJsonlRecordStamped(file, repoName) ==
    << [key |-> "repo",     value |-> repoName],
       [key |-> "filename", value |-> file.path],
       [key |-> "text",     value |-> file.content],
       [key |-> "at",       value |-> ToString(now)] >>

\* the record with the file's name where its path belongs
createJsonlRecordFileName(file, repoName) ==
    << [key |-> "repo",     value |-> repoName],
       [key |-> "filename", value |-> file.name],
       [key |-> "text",     value |-> file.content] >>

\* the JsonlRecord literal, its keys in the order they are written
createJsonlRecord(file, repoName) ==
    << [key |-> "repo",     value |-> repoName],
       [key |-> "filename", value |-> file.path],
       [key |-> "text",     value |-> file.content] >>

\* the escape of one character without the escaping of the line feed
EscapeCharNewlineKept(c) ==
    IF c = "\"" THEN "\\\""
    ELSE IF c = "\\" THEN "\\\\"
    ELSE c

\* JSON.stringify of one character of a string: the quotation mark, the
\* reverse solidus and the line feed are escaped (QuoteJSONString)
EscapeChar(c) ==
    IF c = "\"" THEN "\\\""
    ELSE IF c = "\\" THEN "\\\\"
    ELSE IF c = "\n" THEN "\\n"
    ELSE c

JsonQuote(s) ==
    "\"" \o Concat([i \in 1..Len(s) |-> EscapeChar(CharAt(s, i))]) \o "\""

\* JSON.stringify of an object whose values are strings
JSON_stringify(record) ==
    "{" \o Join([i \in 1..Len(record) |->
                    JsonQuote(record[i].key) \o ":" \o JsonQuote(record[i].value)],
                ",") \o "}"

DefaultRepoName == "repository"
DirectoryReason == "Excluded by directory pattern (node_modules, .git, etc.)"
BinaryReason    == "Binary file (image, archive, executable, etc.)"

\* options.repoName || 'repository': undefined and '' are falsy
RepoNameOf(opts) ==
    IF opts.repoName = <<>> THEN DefaultRepoName
    ELSE IF opts.repoName[1] = "" THEN DefaultRepoName
    ELSE opts.repoName[1]

\* the reason with the two tests taken in the opposite order
ExclusionReasonFileFirst(p) ==
    IF shouldExcludeFile(p) THEN BinaryReason
    ELSE IF shouldExcludePath(p) THEN DirectoryReason
    ELSE "Unknown"

ExclusionReason(p) ==
    IF shouldExcludePath(p) THEN DirectoryReason
    ELSE IF shouldExcludeFile(p) THEN BinaryReason
    ELSE "Unknown"

RECURSIVE TotalCharacters(_)
TotalCharacters(fs) ==
    IF fs = <<>> THEN 0 ELSE Len(Head(fs).content) + TotalCharacters(Tail(fs))

encodeFilesWithStats(fs, all, opts) ==
    LET repoName        == RepoNameOf(opts)
        includableFiles == SelectSeq(fs, LAMBDA f : ~f.isDirectory)
        allNonDirFiles  == SelectSeq(all, LAMBDA f : ~f.isDirectory)
        lines == [i \in 1..Len(includableFiles) |->
                     JSON_stringify(createJsonlRecord(includableFiles[i], repoName))]
        languageBreakdown ==
            [l \in { detectLanguage(includableFiles[i].path) :
                         i \in 1..Len(includableFiles) } |->
                TotalCharacters(SelectSeq(includableFiles,
                    LAMBDA f : detectLanguage(f.path) = l))]
        includedPaths == { includableFiles[i].path : i \in 1..Len(includableFiles) }
        excluded == SelectSeq(allNonDirFiles, LAMBDA f : f.path \notin includedPaths)
        excludedFiles == [i \in 1..Len(excluded) |-> excluded[i].path]
        exclusionLog  == [i \in 1..Len(excluded) |->
                             [path |-> excluded[i].path,
                              reason |-> ExclusionReason(excluded[i].path)]]
    IN  [jsonlContent  |-> Join(lines, "\n"),
         stats         |-> [totalFiles        |-> Len(allNonDirFiles),
                            includedFiles     |-> Len(includableFiles),
                            excludedFiles     |-> Len(excludedFiles),
                            totalCharacters   |-> TotalCharacters(includableFiles),
                            languageBreakdown |-> languageBreakdown],
         excludedFiles |-> excludedFiles,
         exclusionLog  |-> exclusionLog]

\* a FileEntry with content, its lineCount the one extractZipFile computes
SourceFile(p, isDir, content) ==
    [FileEntry(p, isDir) EXCEPT !.content = content,
                                !.lineCount = Len(Split(content, "\n"))]

\* a code file with a line feed, a quotation mark and a reverse solidus
\* followed by n in it, a binary file, a binary file in an excluded directory,
\* and a directory
EncoderEntries ==
    { SourceFile("a.py", FALSE, "x\ny\"\\n"),
      SourceFile("c.png", FALSE, ""),
      SourceFile("node_modules/c.png", FALSE, "z"),
      SourceFile("src", TRUE, "") }

\* no options, an empty repoName and a repoName
EncodeOptionSets == { [repoName |-> <<>>], [repoName |-> <<"">>], [repoName |-> <<"acme">>] }

\* ---------------------------------------------------------- repository stats

\* Math.round(l / t) for integers l >= 0, t > 0: the percentage without the
\* factor of 100
RoundPercentNoScale(l, t) == (2 * l + t) \div (2 * t)

\* Math.round((l / t) * 100) for integers l >= 0, t > 0: the floor of the
\* quotient plus one half (the quotient is exact in binary floating point
\* wherever it lies half way, t then being a multiple of 8)
RoundPercent(l, t) == (200 * l + t) \div (2 * t)

\* the keys of the Map languageStats, in insertion order
RECURSIVE StatsLanguages(_, _)
StatsLanguages(fs, seen) ==
    IF fs = <<>> THEN <<>>
    ELSE LET language == detectLanguage(Head(fs).path)
         IN  IF Head(fs).isDirectory \/ language \in seen
             THEN StatsLanguages(Tail(fs), seen)
             ELSE <<language>> \o StatsLanguages(Tail(fs), seen \cup {language})

RECURSIVE TotalLines(_)
TotalLines(fs) ==
    IF fs = <<>> THEN 0 ELSE Head(fs).lineCount + TotalLines(Tail(fs))

\* the insertion with x put before the elements of equal lineCount
InsertByLineCountBeforeTies(sorted, x) ==
    LET before == SelectSeq(sorted, LAMBDA y : y.lineCount > x.lineCount)
        after  == SelectSeq(sorted, LAMBDA y : y.lineCount <= x.lineCount)
    IN  before \o <<x>> \o after

\* one insertion of the stable sort by (a, b) => b.lineCount - a.lineCount: x
\* goes behind every element it does not have to precede
InsertByLineCount(sorted, x) ==
    LET before == SelectSeq(sorted, LAMBDA y : y.lineCount >= x.lineCount)
        after  == SelectSeq(sorted, LAMBDA y : y.lineCount < x.lineCount)
    IN  before \o <<x>> \o after

\* Array.prototype.sort, which is stable, on the first n elements
RECURSIVE SortByLineCount(_, _)
SortByLineCount(languages, n) ==
    IF n = 0 THEN <<>>
    ELSE InsertByLineCount(SortByLineCount(languages, n - 1), languages[n])

\* the counted files taken after the exclusion filter
CountedFilesFiltered(fs) == filterCodeFiles(SelectSeq(fs, LAMBDA f : ~f.isDirectory))

\* the files the loop does not skip (if (file.isDirectory) continue)
CountedFiles(fs) == SelectSeq(fs, LAMBDA f : ~f.isDirectory)

calculateRepositoryStats(fs) ==
    LET counted    == CountedFiles(fs)
        totalLines == TotalLines(counted)
        keys       == StatsLanguages(fs, {})
        languages  ==
            [i \in 1..Len(keys) |->
                LET own == SelectSeq(counted,
                               LAMBDA f : detectLanguage(f.path) = keys[i])
                IN  [language   |-> keys[i],
                     lineCount  |-> TotalLines(own),
                     charCount  |-> TotalCharacters(own),
                     fileCount  |-> Len(own),
                     percentage |-> IF totalLines > 0
                                    THEN RoundPercent(TotalLines(own), totalLines)
                                    ELSE 0]]
    IN  [totalLines |-> totalLines,
         totalChars |-> TotalCharacters(counted),
         totalFiles |-> Len(counted),
         languages  |-> SortByLineCount(languages, Len(languages)),
         uploadedAt |-> now]

\* a file of one of three languages with 0 (or no) to MaxLines lines, or a
\* directory
StatsKinds ==
    [suffix : {".py", ".js", ".ts"}, isDirectory : {FALSE}, lineCount : 0..MaxLines]
        \cup { [suffix |-> ".py", isDirectory |-> TRUE, lineCount |-> 0] }

StatsFileLists(maxLen) ==
    UNION { { [i \in 1..n |->
                 [FileEntry(BaseNames[i] \o ks[i].suffix, ks[i].isDirectory)
                     EXCEPT !.lineCount = ks[i].lineCount]]
              : ks \in [1..n -> StatsKinds] } : n \in 0..maxLen }

\* ------------------------------------------------------------------- upload

\* String.prototype.endsWith
EndsWith(s, p) == Len(s) >= Len(p) /\ SubSeq(s, Len(s) - Len(p) + 1, Len(s)) = p

validMimeTypes ==
    { "application/zip", "application/x-zip-compressed", "application/x-zip",
      "multipart/x-zip" }

\* the message of the ProcessingError that wrapError builds around an error
\* JSZip throws, which is no ProcessingError itself
wrapError(message) == message

\* file.loads tells how the two zip.loadAsync(file) calls end: "ok", or the
\* kind of error they reject with
validateZipFile(file) ==
    LET hasValidExtension == EndsWith(ToLowerCase(file.name), ".zip")
        hasValidMimeType  == file.type \in validMimeTypes \/ file.type = ""
    IN  IF ~hasValidExtension /\ ~hasValidMimeType
        THEN [valid |-> FALSE, error |-> <<"File does not appear to be a ZIP file">>]
        ELSE IF file.loads[1] = "ok"
        THEN [valid |-> TRUE, error |-> <<>>]
        ELSE [valid |-> FALSE,
              error |-> <<wrapError("File is corrupted or not a valid ZIP archive")>>]

\* the loop over the entries giving up at the first one that does not decode
RECURSIVE ExtractEntriesUntilFailure(_)
ExtractEntriesUntilFailure(entries) ==
    IF entries = <<>> THEN <<>>
    ELSE LET zipEntry == Head(entries)
         IN  IF zipEntry.dir THEN ExtractEntriesUntilFailure(Tail(entries))
             ELSE IF zipEntry.text = <<>> THEN <<>>
             ELSE <<SourceFile(zipEntry.path, FALSE, zipEntry.text[1])>>
                      \o ExtractEntriesUntilFailure(Tail(entries))

\* the loop over Object.entries(loadedZip.files): directories are skipped, an
\* entry whose zipEntry.async('string') rejects (text = <<>>) is logged and
\* skipped, every other entry is pushed
RECURSIVE ExtractEntries(_)
ExtractEntries(entries) ==
    IF entries = <<>> THEN <<>>
    ELSE LET zipEntry == Head(entries)
         IN  IF zipEntry.dir THEN ExtractEntries(Tail(entries))
             ELSE IF zipEntry.text = <<>> THEN ExtractEntries(Tail(entries))
             ELSE <<SourceFile(zipEntry.path, FALSE, zipEntry.text[1])>>
                      \o ExtractEntries(Tail(entries))

\* the stats of the result the outer catch returns
ZeroStats ==
    [totalLines |-> 0, totalChars |-> 0, totalFiles |-> 0, languages |-> <<>>,
     uploadedAt |-> now]

extractZipFile(file) ==
    LET validation == validateZipFile(file)
    IN  IF ~validation.valid
        THEN [files |-> <<>>, success |-> FALSE, error |-> validation.error,
              stats |-> <<>>]
        ELSE IF file.loads[2] # "ok"
        THEN [files |-> <<>>, success |-> FALSE,
              error |-> <<wrapError(IF file.loads[2] = "memory"
                                    THEN "Not enough memory to process this ZIP file"
                                    ELSE "Failed to extract ZIP file")>>,
              stats |-> <<ZeroStats>>]
        ELSE LET extracted == ExtractEntries(file.entries)
             IN  [files |-> extracted, success |-> TRUE, error |-> <<>>,
                  stats |-> <<calculateRepositoryStats(extracted)>>]

\* the state of useZipHandler after handleZipUpload(file)
handleZipUpload(file) ==
    LET extractionResult == extractZipFile(file)
    IN  IF extractionResult.success
        THEN [isLoading |-> FALSE, error |-> <<>>, progress |-> 100,
              files |-> extractionResult.files, stats |-> extractionResult.stats]
        ELSE [isLoading |-> FALSE,
              error |-> IF extractionResult.error = <<>> \/ extractionResult.error = <<"">>
                        THEN <<"Failed to extract ZIP file">> ELSE extractionResult.error,
              progress |-> 0, files |-> <<>>, stats |-> extractionResult.stats]

\* how the promise handleZipUpload(file) returns settles: the failure branch
\* evaluates ProcessingErrorCode.ZIP_INVALID after its setState, and the
\* module neither imports nor declares ProcessingErrorCode
handleZipUploadPromise(file) ==
    LET extractionResult == extractZipFile(file)
    IN  IF extractionResult.success
        THEN [status |-> "fulfilled",
              value  |-> <<[success |-> TRUE, files |-> extractionResult.files,
                            stats |-> extractionResult.stats, error |-> <<>>]>>,
              reason |-> ""]
        ELSE [status |-> "rejected", value |-> <<>>,
              reason |-> "ReferenceError: ProcessingErrorCode is not defined"]

InitialZipState ==
    [isLoading |-> FALSE, error |-> <<>>, progress |-> 0, files |-> <<>>,
     stats |-> <<>>]

Landing == [page |-> "landing", files |-> <<>>, repoName |-> "", stats |-> <<>>]

\* where handleFileSelect leaves the router for a ZipUploadResult
RouteAfterUpload(uploaded) ==
    IF uploaded.error = <<>> /\ Len(uploaded.files) > 0
    THEN LET first == Split(uploaded.files[1].path, "/")[1]
         IN  [page |-> "editor", files |-> uploaded.files,
              repoName |-> IF first = "" THEN "repository" ELSE first,
              stats |-> uploaded.stats]
    ELSE Landing

\* ----------------------------------------------------------------- download

DownloadMaxFiles == 5000

\* the priority list of lib/language-utils
PRIORITY_LANGUAGES == <<"Python">>

DownloadOptions ==
    [maxFiles |-> DownloadMaxFiles, maxPerLanguage |-> DefaultMaxPerLanguage,
     prioritizeDiversity |-> TRUE, priorityLanguages |-> PRIORITY_LANGUAGES]

InitialDownloadState ==
    [isDownloading |-> FALSE, progress |-> 0, error |-> <<>>,
     downloadSummary |-> <<>>]

\* the file list without its directories, as downloadAll passes it on
WithoutDirectories(fs) == SelectSeq(fs, LAMBDA f : ~f.isDirectory)

\* the states the setState calls of downloadAll put the hook in
Started ==
    [isDownloading |-> TRUE, progress |-> 0, error |-> <<>>,
     downloadSummary |-> <<>>]

\* setState(prev => ({ ...prev, progress }))
WithProgress(prev, progress) == [prev EXCEPT !.progress = progress]

Completed(summary) ==
    [isDownloading |-> FALSE, progress |-> 100, error |-> <<>>,
     downloadSummary |-> <<summary>>]

\* the state the catch block sets, left at the progress reached
FailedAtProgress(prev, errorMessage) ==
    [isDownloading |-> FALSE, progress |-> prev.progress,
     error |-> <<errorMessage>>, downloadSummary |-> <<>>]

\* the state the catch block sets
Failed(prev, errorMessage) ==
    [isDownloading |-> FALSE, progress |-> 0, error |-> <<errorMessage>>,
     downloadSummary |-> <<>>]

\* what the catch block makes of the value thrown
ErrorMessageOf(thrown) ==
    IF thrown.isError THEN thrown.message ELSE "Failed to prepare download"

NoCodeFiles == [isError |-> TRUE, message |-> "No code files found in the uploaded archive"]

\* what zip.folder and zip.generateAsync can fail with: an Error with a
\* message, an Error without one, and a value that is no Error
ZipRejections ==
    { [isError |-> TRUE,  message |-> "Failed to create samples folder in ZIP"],
      [isError |-> TRUE,  message |-> ""],
      [isError |-> FALSE, message |-> "aborted"] }

\* modifiedFiles.get(file.path) || file.content
EditedOr(edit, content) == IF edit = "" THEN content ELSE edit

\* an empty Map of edits (and the modifiedFiles argument left undefined)
NoEdits == [p \in {} |-> ""]

\* step 1 of downloadAll: the files with the edits of modifiedFiles, which
\* maps the edited paths to their content
MergeModified(fs, modified) ==
    IF DOMAIN modified = {} THEN fs
    ELSE [i \in 1..Len(fs) |->
            IF fs[i].path \in DOMAIN modified
            THEN [fs[i] EXCEPT !.content = EditedOr(modified[fs[i].path], fs[i].content)]
            ELSE fs[i]]

\* modifiedFiles.has(file.path) ? { ...file, content: modifiedFiles.get(file.path)
\* || file.content } : file
WithEdit(file, modified) ==
    IF file.path \in DOMAIN modified
    THEN [file EXCEPT !.content = EditedOr(modified[file.path], file.content)]
    ELSE file

\* the filter of handleDownload with startsWith(df) in place of
\* startsWith(df + "/")
FilesWithModificationsNoSlash(fs, deleted, modified) ==
    LET kept == SelectSeq(fs, LAMBDA file :
                    /\ file.path \notin deleted
                    /\ ~\E df \in deleted : StartsWith(file.path, df))
    IN  [i \in 1..Len(kept) |-> WithEdit(kept[i], modified)]

\* the files handleDownload passes on: those neither deleted nor under a
\* deleted directory, each with its edit
FilesWithModifications(fs, deleted, modified) ==
    LET kept == SelectSeq(fs, LAMBDA file :
                    /\ file.path \notin deleted
                    /\ ~\E df \in deleted : StartsWith(file.path, df \o "/"))
    IN  [i \in 1..Len(kept) |-> WithEdit(kept[i], modified)]

prepareDownloadSummary(sampledFiles) ==
    [sampleFiles |-> Len(WithoutDirectories(sampledFiles))]

\* an invocation of downloadAll that has not been made, and the locals of one
\* that has
NotInvoked ==
    [pc |-> "idle", repoName |-> "", filesToProcess |-> <<>>, codeFiles |-> <<>>,
     samples |-> <<>>, encodingResult |-> <<>>, summary |-> <<>>]

\* ------------------------------------------------------------ error display

\* the codes getRecoverySuggestion and getErrorTitle tell apart, and one they
\* do not
ProcessingErrorCodes ==
    { "ZIP_CORRUPTED", "ZIP_INVALID", "UNSUPPORTED_FILE_TYPE", "ENCODING_FAILED",
      "MEMORY_ERROR", "NO_CODE_FILES", "UNKNOWN_ERROR" }

\* error.recoveryHint is <<>> when the ProcessingError has none
getRecoverySuggestion(error) ==
    IF error.recoveryHint # <<>> /\ error.recoveryHint # <<"">>
    THEN error.recoveryHint[1]
    ELSE CASE error.code = "ZIP_CORRUPTED" ->
                "Try downloading your codebase again or recreating the ZIP file."
           [] error.code = "ZIP_INVALID" ->
                "Ensure you are uploading a valid ZIP file. Use your OS file compression tool to create it."
           [] error.code = "UNSUPPORTED_FILE_TYPE" ->
                "Remove binary files (images, videos, etc.) from your ZIP before uploading."
           [] error.code = "ENCODING_FAILED" ->
                "Try removing large binary files or files with unusual encodings from your codebase."
           [] error.code = "MEMORY_ERROR" ->
                "Your codebase is too large. Try uploading a smaller section or remove node_modules and build artifacts."
           [] error.code = "NO_CODE_FILES" ->
                "Ensure your ZIP contains code files with recognized programming language extensions."
           [] OTHER ->
                "Try uploading a different ZIP file or check your internet connection."

getErrorTitle(code) ==
    CASE code = "ZIP_CORRUPTED"         -> "ZIP File Corrupted"
      [] code = "ZIP_INVALID"           -> "Invalid ZIP File"
      [] code = "UNSUPPORTED_FILE_TYPE" -> "Unsupported File Type"
      [] code = "ENCODING_FAILED"       -> "Encoding Failed"
      [] code = "MEMORY_ERROR"          -> "File Too Large"
      [] code = "NO_CODE_FILES"         -> "No Code Files Found"
      [] OTHER                          -> "Processing Failed"

formatErrorForDisplay(error) ==
    [title |-> getErrorTitle(error.code), message |-> error.message,
     suggestion |-> getRecoverySuggestion(error)]

\* what ErrorDisplay renders for a ProcessingError: title, message and the
\* tip
ErrorDisplayOfProcessingError(error) ==
    LET formatted == formatErrorForDisplay(error)
    IN  << [title |-> formatted.title, message |-> formatted.message,
            suggestion |-> <<formatted.suggestion>>] >>

\* what ErrorDisplay renders for the string | null that UploadDropzone
\* passes it: nothing, or the title 'Error' and the message
ErrorDisplay(error) ==
    IF error = <<>> \/ error = <<"">> THEN <<>>
    ELSE << [title |-> "Error", message |-> error[1], suggestion |-> <<>>] >>

\* the landing page: UploadDropzone shows the error of useZipHandler unless
\* it is loading
UploadDropzone(state) ==
    IF state.isLoading THEN <<>> ELSE ErrorDisplay(state.error)

\* the editor: the line EditorView shows for the error of useCombinedDownload
DownloadErrorMessage(downloadError) ==
    IF downloadError = <<>> \/ downloadError = <<"">> THEN <<>>
    ELSE << [title |-> "", message |-> downloadError[1], suggestion |-> <<>>] >>

\* the errors on the screen
ErrorsShown ==
    IF route.page = "landing" THEN UploadDropzone(zipState)
    ELSE DownloadErrorMessage(download.error)

\* ------------------------------------------------------------------- editor

MIN_LINES == 5000

\* s repeated n times
RECURSIVE Repeat(_, _)
Repeat(s, n) ==
    IF n = 0 THEN ""
    ELSE IF n = 1 THEN s
    ELSE Repeat(s, n \div 2) \o Repeat(s, n - (n \div 2))

\* currentContent ? currentContent.split("\n").length : 0
CurrentLines(currentContent) ==
    IF currentContent = "" THEN 0
    ELSE Cardinality(SeparatorsOf(currentContent, "\n")) + 1

\* the files GlobalStatusBar and SubmissionModal count: no directory, no
\* deleted path, nothing under a deleted path
IncludedFiles(fs, deleted) ==
    SelectSeq(fs, LAMBDA file :
        /\ ~file.isDirectory
        /\ file.path \notin deleted
        /\ ~\E df \in deleted : StartsWith(file.path, df \o "/"))

\* modifiedFiles?.get(file.path) || file.content
CurrentContent(file, modified) ==
    IF file.path \in DOMAIN modified
    THEN EditedOr(modified[file.path], file.content)
    ELSE file.content

RECURSIVE SumOfLines(_, _)
SumOfLines(fs, modified) ==
    IF fs = <<>> THEN 0
    ELSE CurrentLines(CurrentContent(Head(fs), modified)) + SumOfLines(Tail(fs), modified)

\* totalLines of GlobalStatusBar
StatusBarTotalLines(fs, deleted, modified) ==
    SumOfLines(IncludedFiles(fs, deleted), modified)

isAboveMinimum(fs, deleted, modified) ==
    StatusBarTotalLines(fs, deleted, modified) >= MIN_LINES

\* includedStats.totalLines >= MIN_LINES of SubmissionModal
isReady(fs, deleted, modified) ==
    SumOfLines(IncludedFiles(fs, deleted), modified) >= MIN_LINES

\* the files an editor session is entered with: a directory entry, a text
\* file that is no code file, and three code files, the last in a directory
\* whose name begins with the name of another; MIN_LINES lines in all
EditorFiles ==
    << SourceFile("src", TRUE, ""),
       [FileEntry("GUIDE.md", FALSE) EXCEPT
           !.content = Repeat("\n", MIN_LINES - 5), !.lineCount = MIN_LINES - 4],
       SourceFile("src/a.ts", FALSE, "x\ny"),
       SourceFile("src/b.py", FALSE, "w"),
       SourceFile("src2/a.ts", FALSE, "z") >>

\* what the editor can be left with after typing: nothing, or two lines
EditContents == { "", "p\nq" }

\* --------------------------------------------------------- pipeline inputs

\* what an archive can hold: a Python file, a file under node_modules, a
\* TypeScript file in a directory, a file that is no code file, a binary
\* file, a directory entry, and an entry whose content does not decode
ZipEntries ==
    { [path |-> "a.py",                dir |-> FALSE, text |-> <<"x\ny">>],
      [path |-> "b/node_modules/x.js", dir |-> FALSE, text |-> <<"y">>],
      [path |-> "b/c.ts",              dir |-> FALSE, text |-> <<"z">>],
      [path |-> "LICENSE",             dir |-> FALSE, text |-> <<"MIT">>],
      [path |-> "logo.png",            dir |-> FALSE, text |-> <<"">>],
      [path |-> "b/",                  dir |-> TRUE,  text |-> <<"">>],
      [path |-> "bad.py",              dir |-> FALSE, text |-> <<>>] }

\* the keys of loadedZip.files are distinct
EntryLists(maxLen) ==
    UNION { { es \in [1..n -> ZipEntries] :
                \A i, j \in 1..n : i # j => es[i] # es[j] } :
            n \in 0..maxLen }

\* a ZIP file, one named in capitals without a MIME type, a file that is no
\* ZIP file, a corrupted one, and two whose second load fails
ArchiveKinds ==
    { [name |-> "repo.zip",  type |-> "application/zip", loads |-> <<"ok", "ok">>],
      [name |-> "REPO.ZIP",  type |-> "",                loads |-> <<"ok", "ok">>],
      [name |-> "notes.txt", type |-> "text/plain",      loads |-> <<"corrupt", "corrupt">>],
      [name |-> "repo.zip",  type |-> "application/zip", loads |-> <<"corrupt", "corrupt">>],
      [name |-> "repo.zip",  type |-> "application/zip", loads |-> <<"ok", "memory">>],
      [name |-> "repo.zip",  type |-> "application/zip", loads |-> <<"ok", "corrupt">>] }

Archives(maxLen) ==
    { [name |-> k.name, type |-> k.type, loads |-> k.loads, entries |-> es] :
          k \in ArchiveKinds, es \in EntryLists(maxLen) }

PipelineIdle ==
    /\ archive = [name |-> "", type |-> "", loads |-> <<"ok", "ok">>, entries |-> <<>>]
    /\ extraction = <<>>
    /\ zipState = InitialZipState
    /\ uploadResult = <<>>
    /\ route = Landing
    /\ deletedFiles = {}
    /\ download = InitialDownloadState
    /\ saved = <<>>

SessionIdle ==
    /\ runs = [i \in 1..MaxRuns |-> NotInvoked]
    /\ current = 0
    /\ modifiedFiles = NoEdits
    /\ showSubmissionModal = FALSE

\* ------------------------------------------------------------ specifications

InitSampler ==
    /\ files \in FileListsOf(EntryKinds, MaxInput)
    /\ options \in SamplerOptionSets
    /\ result = <<>>
    /\ FilterIdle
    /\ EncoderIdle
    /\ StatsIdle
    /\ PipelineIdle
    /\ SessionIdle

InitScenario ==
    /\ files \in FileListsOf(ScenarioKinds, MaxScenarioInput)
    /\ options \in ScenarioOptionSets
    /\ result = <<>>
    /\ FilterIdle
    /\ EncoderIdle
    /\ StatsIdle
    /\ PipelineIdle
    /\ SessionIdle

\* one call of sampleCodeFiles(files, options)
SampleCodeFiles ==
    /\ result = <<>>
    /\ result' = <<sampleCodeFiles(files, options)>>
    /\ UNCHANGED <<files, options, segs, path, verdict, encoderVars, repoStats, pipelineVars, sessionVars>>

NextSampler == SampleCodeFiles

SpecSampler == InitSampler /\ [][NextSampler]_vars

SpecScenario == InitScenario /\ [][NextSampler]_vars

InitFilter ==
    /\ segs \in UNION { [1..n -> SegmentNames] : n \in 1..MaxDepth }
    /\ path = Join(segs, "/")
    /\ verdict = NoVerdict
    /\ SamplerIdle
    /\ EncoderIdle
    /\ StatsIdle
    /\ PipelineIdle
    /\ SessionIdle

\* one call of shouldExcludePath(path)
ShouldExcludePath ==
    /\ verdict.byPath = <<>>
    /\ verdict' = [verdict EXCEPT !.byPath = <<shouldExcludePath(path)>>]
    /\ UNCHANGED <<files, options, result, segs, path, encoderVars, repoStats, pipelineVars, sessionVars>>

\* one call of shouldExcludeFile(path)
ShouldExcludeFile ==
    /\ verdict.byFile = <<>>
    /\ verdict' = [verdict EXCEPT !.byFile = <<shouldExcludeFile(path)>>]
    /\ UNCHANGED <<files, options, result, segs, path, encoderVars, repoStats, pipelineVars, sessionVars>>

NextFilter == ShouldExcludePath \/ ShouldExcludeFile

SpecFilter == InitFilter /\ [][NextFilter]_vars

\* paths given to filterCodeFiles: kept, dropped by a directory, dropped by
\* the file name, dropped by both, and an excluded name in final position
FilterPaths ==
    { "lib.js", "node_modules/lib.js", "src/lib.js", "src/image.PNG",
      ".git/config", "node_modules/image.png", ".DS_Store", "src/node_modules" }

InitFilterList ==
    /\ files \in UNION { [1..n -> { FileEntry(p, FALSE) : p \in FilterPaths }] :
                            n \in 0..MaxFilterInput }
    /\ options = DefaultOptions
    /\ result = <<>>
    /\ FilterIdle
    /\ EncoderIdle
    /\ StatsIdle
    /\ PipelineIdle
    /\ SessionIdle

\* one call of filterCodeFiles: the first on the list, the next on its own
\* output
FilterCodeFiles ==
    /\ Len(result) < 2
    /\ result' = Append(result,
                        filterCodeFiles(IF result = <<>> THEN files ELSE result[1]))
    /\ UNCHANGED <<files, options, segs, path, verdict, encoderVars, repoStats, pipelineVars, sessionVars>>

NextFilterList == FilterCodeFiles

SpecFilterList == InitFilterList /\ [][NextFilterList]_vars

InitEncoder ==
    /\ selectedFiles \in UNION { [1..n -> EncoderEntries] : n \in 0..MaxEncoderInput }
    /\ allFiles \in UNION { [1..n -> EncoderEntries] : n \in 0..MaxEncoderInput }
    /\ encodeOptions \in EncodeOptionSets
    /\ encoded = <<>>
    /\ now = 0
    /\ SamplerIdle
    /\ FilterIdle
    /\ StatsIdle
    /\ PipelineIdle
    /\ SessionIdle

\* one call of encodeFilesWithStats(selectedFiles, allFiles, encodeOptions);
\* the clock has moved on when it returns
EncodeFilesWithStats ==
    /\ encoded = <<>>
    /\ encoded' = <<encodeFilesWithStats(selectedFiles, allFiles, encodeOptions)>>
    /\ now' = now + 1
    /\ UNCHANGED <<files, options, result, segs, path, verdict,
                   selectedFiles, allFiles, encodeOptions, repoStats, pipelineVars, sessionVars>>

\* the same call made a second time
EncodeFilesWithStatsAgain ==
    /\ Len(encoded) = 1
    /\ encoded' = Append(encoded,
                         encodeFilesWithStats(selectedFiles, allFiles, encodeOptions))
    /\ now' = now + 1
    /\ UNCHANGED <<files, options, result, segs, path, verdict,
                   selectedFiles, allFiles, encodeOptions, repoStats, pipelineVars, sessionVars>>

NextEncoder == EncodeFilesWithStats \/ EncodeFilesWithStatsAgain

SpecEncoder == InitEncoder /\ [][NextEncoder]_vars

InitStats ==
    /\ files \in StatsFileLists(MaxStatsInput)
    /\ options = DefaultOptions
    /\ result = <<>>
    /\ repoStats = <<>>
    /\ FilterIdle
    /\ EncoderIdle
    /\ PipelineIdle
    /\ SessionIdle

\* the call with the sort by line count made on files itself
CalculateRepositoryStatsSortingFiles ==
    /\ repoStats = <<>>
    /\ repoStats' = <<calculateRepositoryStats(files)>>
    /\ files' = SortByLineCount(files, Len(files))
    /\ now' = now + 1
    /\ UNCHANGED <<options, result, segs, path, verdict,
                   selectedFiles, allFiles, encodeOptions, encoded, pipelineVars, sessionVars>>

\* one call of calculateRepositoryStats(files); the clock has moved on when
\* it returns
CalculateRepositoryStats ==
    /\ repoStats = <<>>
    /\ repoStats' = <<calculateRepositoryStats(files)>>
    /\ now' = now + 1
    /\ UNCHANGED <<files, options, result, segs, path, verdict,
                   selectedFiles, allFiles, encodeOptions, encoded, pipelineVars, sessionVars>>

NextStats == CalculateRepositoryStats

SpecStats == InitStats /\ [][NextStats]_vars

InitPipeline ==
    /\ archive \in Archives(MaxArchiveEntries)
    /\ extraction = <<>>
    /\ zipState = InitialZipState
    /\ uploadResult = <<>>
    /\ route = Landing
    /\ deletedFiles = {}
    /\ download = InitialDownloadState
    /\ saved = <<>>
    /\ SessionIdle
    /\ SamplerIdle
    /\ FilterIdle
    /\ EncoderIdle
    /\ StatsIdle

\* LandingPage.handleFileSelect(archive): handleZipUpload, which runs
\* extractZipFile, then the navigation to the editor
HandleFileSelect ==
    /\ route.page = "landing"
    /\ extraction = <<>>
    /\ extraction' = <<extractZipFile(archive)>>
    /\ zipState' = handleZipUpload(archive)
    /\ repoStats' = IF extractZipFile(archive).success
                    THEN extractZipFile(archive).stats ELSE <<>>
    /\ uploadResult' = <<handleZipUploadPromise(archive)>>
    /\ route' = IF handleZipUploadPromise(archive).status = "fulfilled"
                THEN RouteAfterUpload(handleZipUploadPromise(archive).value[1])
                ELSE route
    /\ now' = now + 1
    /\ UNCHANGED <<files, options, result, segs, path, verdict,
                   selectedFiles, allFiles, encodeOptions, encoded,
                   archive, deletedFiles, download, saved, sessionVars>>

\* the paths the file tree offers for deletion: the files and their top
\* directories
DeletablePaths(fs) ==
    LET inDirectory == SelectSeq(fs, LAMBDA f : SeparatorsOf(f.path, "/") # {})
    IN  { fs[i].path : i \in 1..Len(fs) }
            \cup { Split(inDirectory[i].path, "/")[1] : i \in 1..Len(inDirectory) }

\* useEditorState.deleteFile(filePath)
DeleteFile ==
    /\ route.page = "editor"
    /\ download = InitialDownloadState
    /\ \E filePath \in DeletablePaths(route.files) :
           /\ filePath \notin deletedFiles
           /\ deletedFiles' = deletedFiles \cup {filePath}
    /\ UNCHANGED <<files, options, result, segs, path, verdict, encoderVars,
                   repoStats, archive, extraction, zipState, uploadResult, route,
                   download, saved,
                   sessionVars>>

\* EditorView.handleDownload: downloadAll(filesWithModifications, repoName,
\* undefined, stats), run to its end
HandleDownload ==
    /\ route.page = "editor"
    /\ download = InitialDownloadState
    /\ LET filesToProcess == FilesWithModifications(route.files, deletedFiles, modifiedFiles)
           nonDirFiles    == WithoutDirectories(filesToProcess)
           codeFiles      == filterCodeFiles(nonDirFiles)
       IN  IF Len(codeFiles) = 0
           THEN /\ download' = [isDownloading |-> FALSE, progress |-> 0,
                                error |-> <<"No code files found in the uploaded archive">>,
                                downloadSummary |-> <<>>]
                /\ UNCHANGED <<files, options, result, selectedFiles, allFiles,
                               encodeOptions, encoded, saved>>
           ELSE LET sampling == sampleCodeFiles(codeFiles, DownloadOptions)
                    encodingResult ==
                        encodeFilesWithStats(sampling.samples, nonDirFiles,
                                             [repoName |-> <<route.repoName>>])
                IN  /\ files' = codeFiles
                    /\ options' = DownloadOptions
                    /\ result' = <<sampling>>
                    /\ selectedFiles' = sampling.samples
                    /\ allFiles' = nonDirFiles
                    /\ encodeOptions' = [repoName |-> <<route.repoName>>]
                    /\ encoded' = <<encodingResult>>
                    /\ saved' = <<[samples |-> WithoutDirectories(sampling.samples),
                                   jsonlContent |-> encodingResult.jsonlContent,
                                   repoName |-> route.repoName]>>
                    /\ download' = [isDownloading |-> FALSE, progress |-> 100,
                                    error |-> <<>>,
                                    downloadSummary |->
                                        <<[sampleFiles |->
                                             Len(WithoutDirectories(sampling.samples))]>>]
    /\ UNCHANGED <<segs, path, verdict, now, repoStats, archive, extraction,
                   zipState, uploadResult, route, deletedFiles, sessionVars>>

NextPipeline == HandleFileSelect \/ DeleteFile \/ HandleDownload

SpecPipeline == InitPipeline /\ [][NextPipeline]_vars

\* files of one, three and one lines, the last under an excluded directory,
\* and a directory
CallEntries ==
    { SourceFile("b.js", FALSE, "p"),
      SourceFile("a.py", FALSE, "x\ny\nz"),
      SourceFile("node_modules/c.png", FALSE, "z"),
      SourceFile("src", TRUE, "") }

\* the default options, and options that make the sampler truncate
CallOptions ==
    { DefaultOptions,
      [maxFiles |-> 1, maxPerLanguage |-> DefaultMaxPerLanguage,
       prioritizeDiversity |-> TRUE, priorityLanguages |-> <<"Python">>] }

\* a caller holds one list and passes it to the four functions: as files to
\* filterCodeFiles, sampleCodeFiles and calculateRepositoryStats, as allFiles
\* to encodeFilesWithStats
InitCalls ==
    /\ files \in UNION { [1..n -> CallEntries] : n \in 0..MaxCallInput }
    /\ options \in CallOptions
    /\ result = <<>>
    /\ selectedFiles = <<>>
    /\ allFiles = files
    /\ encodeOptions = [repoName |-> <<"acme">>]
    /\ encoded = <<>>
    /\ now = 0
    /\ StatsIdle
    /\ FilterIdle
    /\ PipelineIdle
    /\ SessionIdle

\* a call of filterCodeFiles(files), whose result the caller keeps as the
\* list to encode
FilterCodeFilesCall ==
    /\ selectedFiles' = filterCodeFiles(files)
    /\ UNCHANGED <<files, options, result, segs, path, verdict, allFiles,
                   encodeOptions, encoded, now, repoStats, pipelineVars, sessionVars>>

NextCalls ==
    \/ FilterCodeFilesCall
    \/ SampleCodeFiles
    \/ EncodeFilesWithStats
    \/ CalculateRepositoryStats

SpecCalls == InitCalls /\ [][NextCalls]_vars

\* the calls made on the hook: a repository with a directory entry, files
\* under vendor and dist and a lock file; a file with an edit; files that are
\* all excluded; and files under .next, venv and build, a lock file and an
\* image
DownloadCalls ==
    { [files |-> << SourceFile("src", TRUE, ""), SourceFile("src/a.py", FALSE, "x\ny"),
                    SourceFile("vendor/lib.go", FALSE, "v"),
                    SourceFile("yarn.lock", FALSE, "l"),
                    SourceFile("dist/x.js", FALSE, "d") >>,
       repoName |-> "src", modifiedFiles |-> NoEdits],
      [files |-> << SourceFile("a.py", FALSE, "x\ny") >>,
       repoName |-> "a.py", modifiedFiles |-> [p \in {"a.py"} |-> "z"]],
      [files |-> << SourceFile("node_modules/x.js", FALSE, "y"),
                    SourceFile("logo.png", FALSE, "") >>,
       repoName |-> "node_modules", modifiedFiles |-> NoEdits],
      [files |-> << SourceFile(".next/app.js", FALSE, "n"),
                    SourceFile("package-lock.json", FALSE, "{}"),
                    SourceFile("venv/z.py", FALSE, "e"),
                    SourceFile("build/y.js", FALSE, "b"),
                    SourceFile("logo.png", FALSE, "") >>,
       repoName |-> ".next", modifiedFiles |-> NoEdits] }

\* what the steps of downloadAll leave alone
downloadFrame ==
    <<files, options, result, segs, path, verdict, encoderVars, repoStats,
      archive, extraction, zipState, uploadResult, route, deletedFiles, modifiedFiles,
      showSubmissionModal>>

InitDownload ==
    /\ SamplerIdle
    /\ FilterIdle
    /\ EncoderIdle
    /\ StatsIdle
    /\ PipelineIdle
    /\ SessionIdle

\* a call of downloadAll(files, repoName, modifiedFiles): the first setState
\* and step 1. The calls are numbered in the order they are made, and a call
\* is made when no other is executing (one may be waiting for a ZIP).
DownloadAll ==
    /\ current = 0
    /\ \E i \in 1..MaxRuns, call \in DownloadCalls :
          /\ runs[i].pc = "idle"
          /\ i > 1 => runs[i - 1].pc # "idle"
          /\ download' = Started
          /\ runs' = [runs EXCEPT ![i] =
                         [NotInvoked EXCEPT
                             !.pc = "filter",
                             !.repoName = call.repoName,
                             !.filesToProcess =
                                 MergeModified(call.files, call.modifiedFiles)]]
          /\ current' = i
    /\ UNCHANGED <<saved, downloadFrame>>

\* step 2: progress 15, then filterCodeFiles on the non-directories
FilterToCodeFiles ==
    /\ current # 0
    /\ runs[current].pc = "filter"
    /\ download' = WithProgress(download, 15)
    /\ runs' = [runs EXCEPT ![current] =
                   [runs[current] EXCEPT
                       !.pc = "sample",
                       !.codeFiles =
                           filterCodeFiles(WithoutDirectories(runs[current].filesToProcess))]]
    /\ UNCHANGED <<current, saved, downloadFrame>>

\* the throw when no code file is left, caught at once; or progress 30 and
\* sampleCodeFiles
SampleFiles ==
    /\ current # 0
    /\ runs[current].pc = "sample"
    /\ IF Len(runs[current].codeFiles) = 0
       THEN /\ download' = Failed(download, ErrorMessageOf(NoCodeFiles))
            /\ runs' = [runs EXCEPT ![current].pc = "failed"]
            /\ current' = 0
       ELSE /\ download' = WithProgress(download, 30)
            /\ runs' = [runs EXCEPT ![current] =
                           [runs[current] EXCEPT
                               !.pc = "encode",
                               !.samples =
                                   sampleCodeFiles(runs[current].codeFiles,
                                                   DownloadOptions).samples]]
            /\ UNCHANGED current
    /\ UNCHANGED <<saved, downloadFrame>>

\* step 3: progress 50, then encodeFilesWithStats
EncodeToJsonl ==
    /\ current # 0
    /\ runs[current].pc = "encode"
    /\ download' = WithProgress(download, 50)
    /\ runs' = [runs EXCEPT ![current] =
                   [runs[current] EXCEPT
                       !.pc = "samplesZip",
                       !.encodingResult =
                           <<encodeFilesWithStats(
                               runs[current].samples,
                               WithoutDirectories(runs[current].filesToProcess),
                               [repoName |-> <<runs[current].repoName>>])>>]]
    /\ UNCHANGED <<current, saved, downloadFrame>>

\* step 4: progress 65, then the call of createSamplesZip, whose promise the
\* invocation waits for
CreateSamplesZip ==
    /\ current # 0
    /\ runs[current].pc = "samplesZip"
    /\ download' = WithProgress(download, 65)
    /\ runs' = [runs EXCEPT ![current].pc = "awaitSamplesZip"]
    /\ current' = 0
    /\ UNCHANGED <<saved, downloadFrame>>

\* createSamplesZip has settled. Fulfilled: step 5, progress 80 and the call
\* of createCombinedResultsZip, waited for in turn. Rejected: the catch block.
CreateCombinedZip ==
    /\ current = 0
    /\ \E i \in 1..MaxRuns :
          /\ runs[i].pc = "awaitSamplesZip"
          /\ \/ /\ download' = WithProgress(download, 80)
                /\ runs' = [runs EXCEPT ![i].pc = "awaitCombinedZip"]
             \/ \E thrown \in ZipRejections :
                   /\ download' = Failed(download, ErrorMessageOf(thrown))
                   /\ runs' = [runs EXCEPT ![i].pc = "failed"]
    /\ UNCHANGED <<current, saved, downloadFrame>>

\* createCombinedResultsZip has settled. Fulfilled: step 6, progress 90 and
\* prepareDownloadSummary. Rejected: the catch block.
PrepareSummary ==
    /\ current = 0
    /\ \E i \in 1..MaxRuns :
          /\ runs[i].pc = "awaitCombinedZip"
          /\ \/ /\ download' = WithProgress(download, 90)
                /\ runs' = [runs EXCEPT ![i] =
                               [runs[i] EXCEPT
                                   !.pc = "trigger",
                                   !.summary =
                                       <<prepareDownloadSummary(runs[i].samples)>>]]
                /\ current' = i
             \/ \E thrown \in ZipRejections :
                   /\ download' = Failed(download, ErrorMessageOf(thrown))
                   /\ runs' = [runs EXCEPT ![i].pc = "failed"]
                   /\ UNCHANGED current
    /\ UNCHANGED <<saved, downloadFrame>>

\* step 7: progress 95 and generateDownloadFilename
TriggerDownload ==
    /\ current # 0
    /\ runs[current].pc = "trigger"
    /\ download' = WithProgress(download, 95)
    /\ runs' = [runs EXCEPT ![current].pc = "downloadZip"]
    /\ UNCHANGED <<current, saved, downloadFrame>>

\* downloadZip(combinedZipBlob, filename): the browser saves the archive
DownloadZip ==
    /\ current # 0
    /\ runs[current].pc = "downloadZip"
    /\ saved' = Append(saved,
                       [samples |-> WithoutDirectories(runs[current].samples),
                        jsonlContent |-> runs[current].encodingResult[1].jsonlContent,
                        repoName |-> runs[current].repoName])
    /\ runs' = [runs EXCEPT ![current].pc = "complete"]
    /\ UNCHANGED <<current, download, downloadFrame>>

\* the last setState of the try block
Complete ==
    /\ current # 0
    /\ runs[current].pc = "complete"
    /\ download' = Completed(runs[current].summary[1])
    /\ runs' = [runs EXCEPT ![current].pc = "succeeded"]
    /\ current' = 0
    /\ UNCHANGED <<saved, downloadFrame>>

NextDownload ==
    \/ DownloadAll
    \/ FilterToCodeFiles
    \/ SampleFiles
    \/ EncodeToJsonl
    \/ CreateSamplesZip
    \/ CreateCombinedZip
    \/ PrepareSummary
    \/ TriggerDownload
    \/ DownloadZip
    \/ Complete

SpecDownload == InitDownload /\ [][NextDownload]_vars

\* the button of the submission modal, disabled while isDownloading is true:
\* a call of downloadAll when none is in progress
DownloadButton ==
    /\ ~download.isDownloading
    /\ DownloadAll

NextDownloadButton ==
    \/ DownloadButton
    \/ FilterToCodeFiles
    \/ SampleFiles
    \/ EncodeToJsonl
    \/ CreateSamplesZip
    \/ CreateCombinedZip
    \/ PrepareSummary
    \/ TriggerDownload
    \/ DownloadZip
    \/ Complete

SpecDownloadButton == InitDownload /\ [][NextDownloadButton]_vars

\* the editor page, as handleFileSelect navigates to it
InitEditor ==
    /\ SamplerIdle
    /\ FilterIdle
    /\ EncoderIdle
    /\ StatsIdle
    /\ SessionIdle
    /\ archive = [name |-> "", type |-> "", loads |-> <<"ok", "ok">>, entries |-> <<>>]
    /\ extraction = <<>>
    /\ zipState = InitialZipState
    /\ uploadResult = <<>>
    /\ route = RouteAfterUpload([error |-> <<>>, files |-> EditorFiles,
                                 stats |-> <<calculateRepositoryStats(EditorFiles)>>])
    /\ deletedFiles = {}
    /\ download = InitialDownloadState
    /\ saved = <<>>

\* CodeEditor.onChange: updateFileContent(selectedFile.path, content), the
\* selected file being one the tree still shows
UpdateFileContent ==
    /\ route.page = "editor"
    /\ download = InitialDownloadState
    /\ \E content \in EditContents :
       \E i \in 1..Len(IncludedFiles(route.files, deletedFiles)) :
          LET filePath == IncludedFiles(route.files, deletedFiles)[i].path
              edited   == DOMAIN modifiedFiles \cup {filePath}
          IN  /\ Cardinality(edited) <= MaxEditedPaths
              /\ modifiedFiles' =
                     [p \in edited |-> IF p = filePath THEN content ELSE modifiedFiles[p]]
    /\ UNCHANGED <<files, options, result, segs, path, verdict, encoderVars,
                   repoStats, pipelineVars, runs, current, showSubmissionModal>>

\* the button of GlobalStatusBar, disabled unless isAboveMinimum:
\* setShowSubmissionModal(true)
OpenSubmissionModal ==
    /\ route.page = "editor"
    /\ ~showSubmissionModal
    /\ isAboveMinimum(route.files, deletedFiles, modifiedFiles)
    /\ showSubmissionModal' = TRUE
    /\ UNCHANGED <<files, options, result, segs, path, verdict, encoderVars,
                   repoStats, pipelineVars, runs, current, modifiedFiles>>

\* the backdrop and the close button of SubmissionModal: onClose
CloseSubmissionModal ==
    /\ showSubmissionModal
    /\ showSubmissionModal' = FALSE
    /\ UNCHANGED <<files, options, result, segs, path, verdict, encoderVars,
                   repoStats, pipelineVars, runs, current, modifiedFiles>>

\* the download button of SubmissionModal, disabled while isDownloading:
\* onDownload
ModalDownload ==
    /\ showSubmissionModal
    /\ ~download.isDownloading
    /\ HandleDownload

\* the backdrop of the modal keeps the pointer from the page beneath it;
\* updateFileContent and deleteFile make no test of showSubmissionModal
NextEditor ==
    \/ UpdateFileContent
    \/ DeleteFile
    \/ OpenSubmissionModal
    \/ CloseSubmissionModal
    \/ ModalDownload

SpecEditor == InitEditor /\ [][NextEditor]_vars

\* -------------------------------------------------------------------- claims

\* the restricted input: the non-directories that pass isCodeFile
Restricted(fs) == SelectSeq(fs, LAMBDA f : ~f.isDirectory /\ isCodeFile(f.path))

OfLanguage(fs, l) == SelectSeq(fs, LAMBDA f : detectLanguage(f.path) = l)

LanguagesOf(fs) == {detectLanguage(fs[i].path) : i \in 1..Len(fs)}

PathsOf(fs) == {fs[i].path : i \in 1..Len(fs)}

EntriesOf(fs) == {fs[i] : i \in 1..Len(fs)}

DistinctPaths(fs) == \A i, j \in 1..Len(fs) : i # j => fs[i].path # fs[j].path

Occurrences(fs, p) == Cardinality({i \in 1..Len(fs) : fs[i].path = p})

RECURSIVE SumOver(_, _)
SumOver(f, keys) ==
    IF keys = {} THEN 0
    ELSE LET k == CHOOSE k \in keys : TRUE IN f[k] + SumOver(f, keys \ {k})

Called == result # <<>>
Returned == result[1]
Truncating == Len(Restricted(files)) > options.maxFiles

\* C1: for every file list and every options with maxFiles >= 0, the samples
\* returned by sampleCodeFiles are at most maxFiles, in each of its branches.
C1_SamplesWithinBudget ==
    (Called /\ options.maxFiles >= 0) => Len(Returned.samples) <= options.maxFiles

\* the budget cut the second pass short: a language with files to give,
\* and a cap that allows them, got no sample because maxFiles was reached
C1_Witness ==
    /\ Called /\ Truncating /\ options.prioritizeDiversity
    /\ options.priorityLanguages = <<"Python">>
    /\ options.maxPerLanguage = DefaultMaxPerLanguage
    /\ options.maxFiles = 2
    /\ Len(Returned.samples) = options.maxFiles
    /\ Cardinality(LanguagesOf(Restricted(files))) = 3
    /\ Cardinality(LanguagesOf(Returned.samples)) = 2

\* C2: when the restricted list is no longer than maxFiles, samples is exactly
\* that list, in the same order, and remaining is empty.
C2_SmallInputReturnedWhole ==
    (Called /\ Len(Restricted(files)) <= options.maxFiles) =>
        /\ Returned.samples = Restricted(files)
        /\ Returned.remaining = <<>>

\* as many code files as the budget, with a cap of 0 that sampling would apply
C2_Witness ==
    /\ Called
    /\ Len(Restricted(files)) = options.maxFiles
    /\ options.maxFiles >= 2
    /\ options.maxPerLanguage = 0
    /\ Len(files) > Len(Restricted(files))
    /\ Returned.samples = Restricted(files)

\* C3 as stated: with prioritizeDiversity, priorityLanguages = [A], maxFiles >= 1
\* and a code file of language A in the input, the samples hold a file of
\* language A, whatever the other options are.
C3_PriorityLanguagePresent_AnyOptions ==
    ( /\ Called /\ options.prioritizeDiversity
      /\ Len(options.priorityLanguages) = 1
      /\ options.maxFiles >= 1
      /\ OfLanguage(Restricted(files), options.priorityLanguages[1]) # <<>> )
    => OfLanguage(Returned.samples, options.priorityLanguages[1]) # <<>>

\* C3 amended: the same, provided maxPerLanguage >= 1.
C3_PriorityLanguagePresent ==
    ( /\ Called /\ options.prioritizeDiversity
      /\ Len(options.priorityLanguages) = 1
      /\ options.maxFiles >= 1
      /\ options.maxPerLanguage >= 1
      /\ OfLanguage(Restricted(files), options.priorityLanguages[1]) # <<>> )
    => OfLanguage(Returned.samples, options.priorityLanguages[1]) # <<>>

\* a budget of one file, and the one Python file comes after files of two
\* other languages: it is the file sampled
C3_Witness ==
    /\ Called /\ Truncating /\ options.prioritizeDiversity
    /\ options.priorityLanguages = <<"Python">>
    /\ options.maxFiles = 1 /\ options.maxPerLanguage >= 1
    /\ Cardinality(LanguagesOf(Restricted(files))) = 3
    /\ detectLanguage(Restricted(files)[1].path) # "Python"
    /\ Len(Returned.samples) = 1
    /\ detectLanguage(Returned.samples[1].path) = "Python"

\* C4: more code files than maxFiles, over 3 languages, sampled with the
\* options downloadAll passes (diversity, Python first, the default
\* maxPerLanguage): the samples fill the budget, samples.length = maxFiles.
C4_BudgetFilled ==
    ( /\ Called /\ Truncating
      /\ options.prioritizeDiversity
      /\ options.priorityLanguages = <<"Python">>
      /\ options.maxPerLanguage = DefaultMaxPerLanguage
      /\ Cardinality(LanguagesOf(Restricted(files))) = 3 )
    => Len(Returned.samples) = options.maxFiles

\* C5: in diversity mode with truncation and one priority language L, the
\* samples of language L are the first min(#L, maxPerLanguage,
\* ceil(maxFiles / #groups)) files of L, in input order, and no more.
C5_PriorityLanguageShare ==
    ( /\ Called /\ Truncating /\ options.prioritizeDiversity
      /\ Len(options.priorityLanguages) = 1 )
    => LET L      == options.priorityLanguages[1]
           ofL    == OfLanguage(Restricted(files), L)
           groups == Cardinality(LanguagesOf(Restricted(files)))
           share  == Min(Len(ofL), Min(options.maxPerLanguage,
                                       Ceil(options.maxFiles, groups)))
       IN  OfLanguage(Returned.samples, L) = SubSeq(ofL, 1, share)

\* the share ceil(maxFiles / #groups) is the smallest of the three and is
\* what the priority language gets
C5_Witness ==
    /\ Called /\ Truncating /\ options.prioritizeDiversity
    /\ options.priorityLanguages = <<"Python">>
    /\ LET ofL   == OfLanguage(Restricted(files), "Python")
           share == Ceil(options.maxFiles, Cardinality(LanguagesOf(Restricted(files))))
       IN  /\ share >= 1
           /\ share < Len(ofL)
           /\ share < options.maxPerLanguage
           /\ share < options.maxFiles
           /\ Len(OfLanguage(Returned.samples, "Python")) = share

\* C6 as stated: for all inputs and options no language has more than
\* maxPerLanguage of the returned samples.
C6_PerLanguageCap_AllBranches ==
    Called => \A l \in LanguagesOf(Returned.samples) :
                  Len(OfLanguage(Returned.samples, l)) <= options.maxPerLanguage

\* C6 amended: when there are more code files than maxFiles and
\* prioritizeDiversity is true, no language has more than maxPerLanguage of
\* the returned samples.
C6_PerLanguageCap ==
    (Called /\ Truncating /\ options.prioritizeDiversity) =>
        \A l \in LanguagesOf(Returned.samples) :
            Len(OfLanguage(Returned.samples, l)) <= options.maxPerLanguage

\* the cap is what limits the priority language: it has more files, and its
\* share of the budget is larger
C6_Witness ==
    /\ Called /\ Truncating /\ options.prioritizeDiversity
    /\ options.priorityLanguages = <<"Python">>
    /\ options.maxPerLanguage >= 1
    /\ Len(OfLanguage(Restricted(files), "Python")) > options.maxPerLanguage
    /\ Ceil(options.maxFiles, Cardinality(LanguagesOf(Restricted(files))))
           > options.maxPerLanguage
    /\ Len(OfLanguage(Returned.samples, "Python")) = options.maxPerLanguage

\* C7: given distinct paths, every sample is a file of the restricted input
\* and no path occurs twice in samples, also when priorityLanguages names a
\* language twice.
C7_SamplesSubsetNoDuplicates ==
    (Called /\ DistinctPaths(files)) =>
        /\ EntriesOf(Returned.samples) \subseteq EntriesOf(Restricted(files))
        /\ DistinctPaths(Returned.samples)

\* Python is named twice, there is room left after its first turn, and its
\* second turn adds nothing
C7_Witness ==
    /\ Called /\ Truncating /\ options.prioritizeDiversity
    /\ options.priorityLanguages = <<"Python", "Python">>
    /\ Len(OfLanguage(Restricted(files), "Python")) >= 2
    /\ Len(OfLanguage(Returned.samples, "Python")) = 1
    /\ Len(Returned.samples) = 2
    /\ options.maxFiles = 2

\* C8: given distinct paths, samples and remaining partition the restricted
\* input, remaining keeps the input order, and the statistics add up:
\* samples.length + remaining.length = totalFiles, sampledFiles =
\* samples.length, and the language counts sum to samples.length.
C8_SamplesRemainingPartition ==
    (Called /\ DistinctPaths(files)) =>
        /\ \A p \in PathsOf(Restricted(files)) :
               Occurrences(Returned.samples, p) + Occurrences(Returned.remaining, p) = 1
        /\ PathsOf(Returned.samples) \cup PathsOf(Returned.remaining)
               = PathsOf(Restricted(files))
        /\ Returned.remaining =
               SelectSeq(Restricted(files),
                         LAMBDA f : f.path \notin PathsOf(Returned.samples))
        /\ Len(Returned.samples) + Len(Returned.remaining) = Returned.stats.totalFiles
        /\ Returned.stats.sampledFiles = Len(Returned.samples)
        /\ SumOver(Returned.stats.languageDistribution,
                   DOMAIN Returned.stats.languageDistribution) = Len(Returned.samples)

\* simple truncation that keeps two files of two languages and leaves one
C8_Witness ==
    /\ Called /\ Truncating /\ ~options.prioritizeDiversity
    /\ Len(Returned.samples) = 2
    /\ Len(Returned.remaining) = 1
    /\ Cardinality(DOMAIN Returned.stats.languageDistribution) = 2

\* C9: shouldExcludePath(p) is true iff a segment of p other than the last is
\* exactly a name of the directory blocklist.
C9_ExcludePathIffDirectorySegment ==
    verdict.byPath # <<>> =>
        ( verdict.byPath[1] <=>
              \E i \in 1..(Len(segs) - 1) : segs[i] \in EXCLUDED_DIR_PATTERNS )

\* a blocklisted name as the final segment only, below a directory whose
\* name differs from a blocklisted one by case: not excluded
C9_Witness ==
    /\ verdict.byPath = <<FALSE>>
    /\ Len(segs) = 3
    /\ segs[1] = "src" /\ segs[2] = "Node_Modules" /\ segs[3] = "build"

\* the extension the claims speak of: the file name from its last '.' on,
\* lower-cased, empty when the name has no '.'
LastDotExtension(fname) ==
    IF \A k \in 1..Len(fname) : CharAt(fname, k) # "." THEN ""
    ELSE LET k == CHOOSE k \in 1..Len(fname) :
                      /\ CharAt(fname, k) = "."
                      /\ \A j \in (k + 1)..Len(fname) : CharAt(fname, j) # "."
         IN  ToLowerCase(SubSeq(fname, k, Len(fname)))

FileRule(fname) ==
    \/ fname \in EXCLUDED_FILES
    \/ (Len(fname) >= 2 /\ SubSeq(fname, 1, 2) = "._")
    \/ LastDotExtension(fname) \in BINARY_EXTENSIONS

\* C10 as stated: for every path, shouldExcludeFile is true iff the final
\* segment is a junk file name, or starts with '._', or has a binary
\* extension; the directory part never influences the result.
C10_ExcludeFileByFinalSegment_EveryPath ==
    verdict.byFile # <<>> => (verdict.byFile[1] <=> FileRule(Last(segs)))

\* C10 amended: the same for every path whose final segment is not empty
\* (a path that does not end in '/').
C10_ExcludeFileByFinalSegment ==
    (verdict.byFile # <<>> /\ Last(segs) # "") =>
        (verdict.byFile[1] <=> FileRule(Last(segs)))

\* an upper-case binary extension below two directories, one of them
\* blocklisted: excluded by the file name
C10_Witness ==
    /\ verdict.byFile = <<TRUE>>
    /\ Len(segs) = 3
    /\ segs[1] = "node_modules" /\ segs[2] = "src" /\ segs[3] = "image.PNG"

\* C11: filterCodeFiles returns, in input order, exactly the files for which
\* shouldExcludeFile and shouldExcludePath are both false (the two tests taken
\* here in the opposite order), and applied to its own output it returns that
\* output unchanged.
C11_FilterKeepsUnexcluded ==
    /\ Len(result) >= 1 =>
          result[1] = SelectSeq(files, LAMBDA f :
                          ~shouldExcludeFile(f.path) /\ ~shouldExcludePath(f.path))
    /\ Len(result) = 2 => result[2] = result[1]

\* node_modules/lib.js is dropped by its directory although lib.js alone is
\* kept, and the second call has returned
C11_Witness ==
    /\ Len(result) = 2
    /\ \E i \in 1..Len(files) : files[i].path = "node_modules/lib.js"
    /\ \E i \in 1..Len(files) : files[i].path = "lib.js"
    /\ ~shouldExcludeFile("lib.js")
    /\ \A i \in 1..Len(result[1]) : result[1][i].path # "node_modules/lib.js"
    /\ \E i \in 1..Len(result[1]) : result[1][i].path = "lib.js"

\* the selected files a record is written for
Includable == SelectSeq(selectedFiles, LAMBDA f : ~f.isDirectory)

\* jsonlContent.split('\n') of the k-th call
JsonlLines(k) == Split(encoded[k].jsonlContent, "\n")

\* C12 as stated: for every N >= 0 non-directory selected files, whatever
\* their contents, jsonlContent split on the line feed has exactly N elements.
C12_LineCountIsFileCount_AnyN ==
    \A k \in 1..Len(encoded) : Len(JsonlLines(k)) = Len(Includable)

\* C12 amended: for N >= 1 non-directory selected files jsonlContent split on
\* the line feed has exactly N elements; for N = 0 jsonlContent is the empty
\* string, whose split has one (empty) element.
C12_LineCountIsFileCount ==
    \A k \in 1..Len(encoded) :
        IF Len(Includable) >= 1
        THEN Len(JsonlLines(k)) = Len(Includable)
        ELSE encoded[k].jsonlContent = "" /\ JsonlLines(k) = <<"">>

\* two files have been encoded, one of them with a line feed in its content
C12_Witness ==
    /\ encoded # <<>>
    /\ Len(Includable) = 2
    /\ Len(Split(Includable[2].content, "\n")) > 1
    /\ Len(JsonlLines(1)) = 2

\* the number of reverse solidi right before position i of s
BackslashRun(s, i) ==
    CHOOSE k \in 0..(i - 1) :
        /\ \A j \in (i - k)..(i - 1) : CharAt(s, j) = "\\"
        /\ k = i - 1 \/ CharAt(s, i - k - 1) # "\\"

\* the character at position i is the second one of an escape
Escaped(s, i) == BackslashRun(s, i) % 2 = 1

\* a JSON string body read back: the reverse solidus that opens an escape is
\* dropped and the escaped n is the line feed
Unescape(raw) ==
    Concat([i \in 1..Len(raw) |->
        IF Escaped(raw, i)
        THEN (IF CharAt(raw, i) = "n" THEN "\n" ELSE CharAt(raw, i))
        ELSE IF CharAt(raw, i) = "\\" THEN "" ELSE CharAt(raw, i)])

\* the string literals of a JSON text in the order they are written, decoded
JsonStrings(text) ==
    LET quotes == { i \in 1..Len(text) : CharAt(text, i) = "\"" /\ ~Escaped(text, i) }
    IN  [k \in 1..(Cardinality(quotes) \div 2) |->
            Unescape(SubSeq(text, NthOf(quotes, 2 * k - 1) + 1,
                                  NthOf(quotes, 2 * k) - 1))]

\* the records of the k-th call read back, none when nothing was selected
RecordsOf(k) ==
    IF encoded[k].jsonlContent = "" THEN <<>>
    ELSE [i \in 1..Len(JsonlLines(k)) |-> JsonStrings(JsonlLines(k)[i])]

\* the records expected under the repo name r
ExpectedRecords(r) ==
    [i \in 1..Len(Includable) |->
        << "repo", r, "filename", Includable[i].path,
           "text", Includable[i].content >>]

\* C13 as stated: one record per non-directory selected file, the i-th for
\* the i-th such file, with the keys repo, filename, text in that order, repo
\* the repoName given, whatever it is ('repository' when none is given),
\* filename the path and text the content.
C13_RecordPerFile_AnyRepoName ==
    \A k \in 1..Len(encoded) :
        RecordsOf(k) = ExpectedRecords(IF encodeOptions.repoName = <<>>
                                       THEN "repository"
                                       ELSE encodeOptions.repoName[1])

\* C13 amended: as above, repo being the repoName given when it is not empty
\* and 'repository' when it is empty or not given.
C13_RecordPerFile ==
    \A k \in 1..Len(encoded) :
        RecordsOf(k) = ExpectedRecords(IF encodeOptions.repoName \in { <<>>, <<"">> }
                                       THEN "repository"
                                       ELSE encodeOptions.repoName[1])

\* two files were encoded under a given name, the one with the quotation
\* mark second, the first a file whose name differs from its path
C13_Witness ==
    /\ encoded # <<>>
    /\ encodeOptions.repoName = <<"acme">>
    /\ Len(Includable) = 2
    /\ Includable[1].path = "node_modules/c.png" /\ Includable[2].path = "a.py"
    /\ RecordsOf(1)[1][2] = "acme"
    /\ RecordsOf(1)[1][4] = "node_modules/c.png"
    /\ RecordsOf(1)[2][6] = "x\ny\"\\n"

SelectedPaths == { Includable[i].path : i \in 1..Len(Includable) }

\* the log entries the files of all are due, first file first
RECURSIVE LogDue(_)
LogDue(all) ==
    IF all = <<>> THEN <<>>
    ELSE LET f == Head(all)
         IN  IF f.isDirectory \/ f.path \in SelectedPaths
             THEN LogDue(Tail(all))
             ELSE << [path |-> f.path,
                      reason |-> CASE shouldExcludePath(f.path) -> DirectoryReason
                                   [] ~shouldExcludePath(f.path) /\ shouldExcludeFile(f.path)
                                          -> BinaryReason
                                   [] OTHER -> "Unknown"] >> \o LogDue(Tail(all))

\* C15: the exclusionLog has one entry, in allFiles order, for every
\* non-directory file of allFiles whose path is not selected and none for the
\* others; the reason is the directory-pattern one whenever shouldExcludePath
\* holds, else the binary-file one when shouldExcludeFile holds, else
\* 'Unknown'; excludedFiles lists the paths of the log in the same order.
C15_ExclusionLog ==
    \A k \in 1..Len(encoded) :
        /\ encoded[k].exclusionLog = LogDue(allFiles)
        /\ encoded[k].excludedFiles =
              [i \in 1..Len(encoded[k].exclusionLog) |-> encoded[k].exclusionLog[i].path]

\* a selected file has no entry, and a file that both tests exclude is
\* logged with the directory-pattern reason
C15_Witness ==
    /\ encoded # <<>>
    /\ Len(allFiles) = 2
    /\ allFiles[1].path = "a.py" /\ allFiles[1].path \in SelectedPaths
    /\ allFiles[2].path = "node_modules/c.png"
    /\ shouldExcludePath(allFiles[2].path) /\ shouldExcludeFile(allFiles[2].path)
    /\ encoded[1].exclusionLog =
          << [path |-> "node_modules/c.png", reason |-> DirectoryReason] >>
    /\ encoded[1].excludedFiles = << "node_modules/c.png" >>

\* the languages of the returned stats, and the sum of their percentages
Languages == repoStats[1].languages

RECURSIVE PercentageSum(_)
PercentageSum(languages) ==
    IF languages = <<>> THEN 0
    ELSE Head(languages).percentage + PercentageSum(Tail(languages))

\* p is x rounded, x being 100 * l / t: p <= x + 1/2 < p + 1
IsRounded(p, l, t) == 2 * t * p <= 200 * l + t /\ 200 * l + t < 2 * t * (p + 1)

\* each percentage is round(languageLines / totalLines * 100), 0 when
\* totalLines is 0
PercentagesRounded ==
    \A i \in 1..Len(Languages) :
        IF repoStats[1].totalLines = 0 THEN Languages[i].percentage = 0
        ELSE IsRounded(Languages[i].percentage, Languages[i].lineCount,
                       repoStats[1].totalLines)

\* C16 as stated: for every file list the percentages, each the rounded
\* share of its language and 0 when totalLines is 0, sum to 100 give or take
\* the number of languages.
C16_PercentagesNear100_AnyList ==
    repoStats # <<>> =>
        /\ PercentagesRounded
        /\ PercentageSum(Languages) - 100 <= Len(Languages)
        /\ 100 - PercentageSum(Languages) <= Len(Languages)

\* C16 amended: each percentage is the rounded share of its language and 0
\* when totalLines is 0; when totalLines > 0 the percentages sum to 100 give
\* or take the number of languages, and when totalLines is 0 they sum to 0.
C16_PercentagesNear100 ==
    repoStats # <<>> =>
        /\ PercentagesRounded
        /\ IF repoStats[1].totalLines > 0
           THEN /\ PercentageSum(Languages) - 100 <= Len(Languages)
                /\ 100 - PercentageSum(Languages) <= Len(Languages)
           ELSE PercentageSum(Languages) = 0

\* three languages of one line each: 33 + 33 + 33 = 99
C16_Witness ==
    /\ repoStats # <<>>
    /\ Len(Languages) = 3
    /\ repoStats[1].totalLines = 3
    /\ PercentageSum(Languages) = 99

\* where the first counted file of a language stands in the input
FirstFileOf(language) ==
    CHOOSE i \in 1..Len(files) :
        /\ ~files[i].isDirectory /\ detectLanguage(files[i].path) = language
        /\ \A j \in 1..(i - 1) :
              files[j].isDirectory \/ detectLanguage(files[j].path) # language

\* C17: the languages are in non-increasing order of lineCount, and of two
\* languages with the same lineCount the one whose first file comes first in
\* the input comes first.
C17_LanguagesSortedStable ==
    repoStats # <<>> =>
        \A i, j \in 1..Len(Languages) :
            i < j =>
                /\ Languages[i].lineCount >= Languages[j].lineCount
                /\ Languages[i].lineCount = Languages[j].lineCount =>
                      FirstFileOf(Languages[i].language)
                          < FirstFileOf(Languages[j].language)

\* TypeScript met first with one line, then Python and JavaScript with two
\* each: the sort moves TypeScript last and keeps Python before JavaScript
C17_Witness ==
    /\ repoStats # <<>>
    /\ Len(files) = 3
    /\ detectLanguage(files[1].path) = "TypeScript" /\ files[1].lineCount = 1
    /\ detectLanguage(files[2].path) = "Python" /\ files[2].lineCount = 2
    /\ detectLanguage(files[3].path) = "JavaScript" /\ files[3].lineCount = 2
    /\ \A i \in 1..3 : ~files[i].isDirectory
    /\ Languages[1].language = "Python"
    /\ Languages[2].language = "JavaScript"
    /\ Languages[3].language = "TypeScript"

\* the entries of the archive that are files and decode
DecodableEntries ==
    SelectSeq(archive.entries, LAMBDA e : ~e.dir /\ e.text # <<>>)

\* the archive opens: validation passes and the second load succeeds
ArchiveOpens ==
    /\ \/ EndsWith(ToLowerCase(archive.name), ".zip")
       \/ archive.type \in validMimeTypes \cup {""}
    /\ archive.loads = <<"ok", "ok">>

\* the archive of the example: a.py, b/node_modules/x.js, b/c.ts
ExampleArchive ==
    /\ Len(archive.entries) = 3
    /\ archive.entries[1].path = "a.py"
    /\ archive.entries[2].path = "b/node_modules/x.js"
    /\ archive.entries[3].path = "b/c.ts"

\* C18: the totalFiles of the RepositoryStats counts every non-directory
\* extracted file, excluded ones too; the includedFiles of the encoding stats
\* of downloadAll counts the samples, all of which pass both exclusion tests;
\* for the archive a.py, b/node_modules/x.js, b/c.ts downloaded as uploaded
\* totalFiles is 3 and includedFiles is 2.
C18_TotalBeforeFilterIncludedAfter ==
    /\ route.page = "editor" =>
          /\ route.stats[1].totalFiles = Len(DecodableEntries)
          /\ route.stats[1].totalFiles = Len(route.files)
    /\ encoded # <<>> =>
          /\ encoded[1].stats.includedFiles = Len(result[1].samples)
          /\ encoded[1].stats.includedFiles <= route.stats[1].totalFiles
          /\ \A i \in 1..Len(result[1].samples) :
                /\ ~shouldExcludePath(result[1].samples[i].path)
                /\ ~shouldExcludeFile(result[1].samples[i].path)
                /\ \E j \in 1..Len(route.files) :
                      route.files[j] = result[1].samples[i]
    /\ (encoded # <<>> /\ ExampleArchive /\ deletedFiles = {}) =>
          /\ route.stats[1].totalFiles = 3
          /\ encoded[1].stats.includedFiles = 2

\* the example archive has been uploaded and downloaded
C18_Witness ==
    /\ ExampleArchive
    /\ deletedFiles = {}
    /\ encoded # <<>>
    /\ route.stats[1].totalFiles = 3
    /\ encoded[1].stats.includedFiles = 2
    /\ shouldExcludePath("b/node_modules/x.js")

\* no file of the archive is a qualifying source file: each one is excluded
\* or is no code file
NoQualifyingFile ==
    \A i \in 1..Len(DecodableEntries) :
        \/ shouldExcludePath(DecodableEntries[i].path)
        \/ shouldExcludeFile(DecodableEntries[i].path)
        \/ ~isCodeFile(DecodableEntries[i].path)

\* C19 as stated: when the uploaded archive opens and holds no qualifying
\* source file, sampling is never attempted, nothing is downloaded, no run
\* ends successfully, and once the upload is over an error is on display
\* (the one of the landing page, or after a download the "no code files" one).
C19_NoCodeFilesIsAnError ==
    (ArchiveOpens /\ NoQualifyingFile) =>
        /\ result = <<>>
        /\ saved = <<>>
        /\ download.progress # 100
        /\ download.error \in { <<>>, <<"No code files found in the uploaded archive">> }
        /\ (extraction # <<>> /\ route.page = "landing") => zipState.error # <<>>

\* C20: extractZipFile either succeeds with one FileEntry, in archive order,
\* for every non-directory entry that decodes, or fails with an empty file
\* list; it succeeds exactly when the archive opens.
C20_ExtractAllOrNothing ==
    extraction # <<>> =>
        IF extraction[1].success
        THEN /\ ArchiveOpens
             /\ Len(extraction[1].files) = Len(DecodableEntries)
             /\ \A i \in 1..Len(DecodableEntries) :
                   /\ extraction[1].files[i].path = DecodableEntries[i].path
                   /\ extraction[1].files[i].content = DecodableEntries[i].text[1]
                   /\ ~extraction[1].files[i].isDirectory
        ELSE /\ ~ArchiveOpens
             /\ extraction[1].files = <<>>
             /\ extraction[1].error # <<>>

\* an entry that does not decode stands between two that do, next to a
\* directory entry, and both files were extracted
C20_Witness ==
    /\ extraction # <<>>
    /\ extraction[1].success
    /\ Len(archive.entries) = 3
    /\ archive.entries[1].path = "a.py"
    /\ archive.entries[2].text = <<>>
    /\ archive.entries[3].path = "b/c.ts"
    /\ Len(extraction[1].files) = 2
    /\ extraction[1].files[2].path = "b/c.ts"

\* the invocations of downloadAll that have started and neither succeeded nor
\* failed
InFlight == { i \in 1..MaxRuns : runs[i].pc \notin {"idle", "failed", "succeeded"} }

\* the checkpoint that follows a checkpoint
NextCheckpoint(progress) ==
    CASE progress = 0  -> 15
      [] progress = 15 -> 30
      [] progress = 30 -> 50
      [] progress = 50 -> 65
      [] progress = 65 -> 80
      [] progress = 80 -> 90
      [] progress = 90 -> 95
      [] OTHER         -> 100

\* what a step of the hook does to its state
C21_Step ==
    /\ (~download.isDownloading /\ download'.isDownloading) =>
           /\ download'.progress = 0
           /\ download'.error = <<>>
           /\ download'.downloadSummary = <<>>
    /\ (download.isDownloading /\ download'.isDownloading) =>
           /\ download.progress < 100
           /\ \/ download'.progress = NextCheckpoint(download.progress)
              \/ /\ download'.progress = download.progress
                 /\ download.progress = 95
                 /\ Len(saved') = Len(saved) + 1
           /\ download'.progress <= 95
           /\ download'.error = <<>>
           /\ download'.downloadSummary = <<>>
    /\ (download.isDownloading /\ ~download'.isDownloading) =>
           \/ /\ download.progress = 95
              /\ download'.progress = 100
              /\ download'.error = <<>>
              /\ download'.downloadSummary # <<>>
              /\ saved' = saved
              /\ \E i \in InFlight :
                    /\ Len(saved) >= 1
                    /\ saved[Len(saved)].repoName = runs[i].repoName
                    /\ saved[Len(saved)].jsonlContent
                          = runs[i].encodingResult[1].jsonlContent
           \/ /\ download'.progress = 0
              /\ download'.error # <<>>
              /\ download'.downloadSummary = <<>>
              /\ saved' = saved
    /\ (~download.isDownloading /\ ~download'.isDownloading) =>
           download' = download

\* C21: in a downloadAll run started when no other is in progress, progress
\* starts at 0 and moves from each checkpoint to the next one (0, 15, 30, 50,
\* 65, 80, 90, 95) while isDownloading is true, with no error and no summary;
\* the run ends either from 95 with progress 100, isDownloading false, error
\* null and a summary, the archive having been handed to downloadZip at 95,
\* or with progress 0, isDownloading false, an error and no summary.
C21_ProgressCheckpoints == [][C21_Step]_vars

\* a run has succeeded on its own after its archive was saved
C21_Witness ==
    /\ runs[1].pc = "succeeded"
    /\ runs[2].pc = "idle"
    /\ download = Completed([sampleFiles |-> 2])
    /\ Len(saved) = 1

\* the ProcessingErrors with and without a hint of their own
ProcessingErrors ==
    { [code |-> c, message |-> "m", recoveryHint |-> h] :
          c \in ProcessingErrorCodes,
          h \in { <<>>, <<"">>, <<"remove node_modules and retry">> } }

\* C22 as stated: formatErrorForDisplay gives every ProcessingError a
\* non-empty suggestion, its own hint when it has one, and every error on the
\* screen, after a failed upload or a failed download, comes with a non-empty
\* recovery hint.
C22_EveryErrorShownWithHint ==
    /\ \A e \in ProcessingErrors :
          /\ formatErrorForDisplay(e).suggestion # ""
          /\ ErrorDisplayOfProcessingError(e)[1].suggestion
                # <<"">>
          /\ (e.recoveryHint # <<>> /\ e.recoveryHint # <<"">>) =>
                formatErrorForDisplay(e).suggestion = e.recoveryHint[1]
    /\ \A i \in 1..Len(ErrorsShown) :
          /\ ErrorsShown[i].suggestion # <<>>
          /\ ErrorsShown[i].suggestion # <<"">>

\* the records of a JSONL text read back, none when the text is empty
RecordsIn(text) ==
    IF text = "" THEN <<>>
    ELSE LET lines == Split(text, "\n")
         IN  [i \in 1..Len(lines) |-> JsonStrings(lines[i])]

\* the directories and the lock files the README names
ReadmeDirectories == { "node_modules", "vendor", "venv", "dist", "build", ".next" }
ReadmeLockFiles == { "package-lock.json", "yarn.lock" }

\* the path lies under one of these directories, or names a binary file or
\* a lock file
ReadmeFiltersOut(p) ==
    LET parts == Split(p, "/")
    IN  \/ \E k \in 1..(Len(parts) - 1) : parts[k] \in ReadmeDirectories
        \/ LastDotExtension(parts[Len(parts)]) \in BINARY_EXTENSIONS
        \/ parts[Len(parts)] \in ReadmeLockFiles

\* C23 as stated: no file under node_modules, vendor, venv, dist, build or
\* .next, no binary file and no lock file is among the samples or the JSONL
\* records of a downloadAll run.
C23_ReadmeFilterHolds ==
    \A i \in 1..MaxRuns :
        /\ \A k \in 1..Len(runs[i].samples) :
              ~ReadmeFiltersOut(runs[i].samples[k].path)
        /\ runs[i].encodingResult # <<>> =>
              \A k \in 1..Len(RecordsIn(runs[i].encodingResult[1].jsonlContent)) :
                  ~ReadmeFiltersOut(RecordsIn(runs[i].encodingResult[1].jsonlContent)[k][4])

\* what a call leaves of the lists and options it is given
C24_Step ==
    /\ files' = files
    /\ options' = options
    /\ allFiles' = allFiles
    /\ encodeOptions' = encodeOptions
    /\ (result' # result \/ encoded' # encoded \/ repoStats' # repoStats) =>
          selectedFiles' = selectedFiles
    /\ selectedFiles' # selectedFiles =>
          (result' = result /\ encoded' = encoded /\ repoStats' = repoStats)

SampleLanguage(k) == detectLanguage(Returned.samples[k].path)

\* the place of a language in the order the diversity pass visits them: the
\* priority languages by their first place in priorityLanguages, then the
\* others by their first file among the code files of the input
VisitRank(l) ==
    LET priority == options.priorityLanguages
        codeFiles == Restricted(files)
    IN  IF \E k \in 1..Len(priority) : priority[k] = l
        THEN CHOOSE k \in 1..Len(priority) :
                 /\ priority[k] = l
                 /\ \A j \in 1..(k - 1) : priority[j] # l
        ELSE Len(priority) +
             (CHOOSE k \in 1..Len(codeFiles) :
                 /\ detectLanguage(codeFiles[k].path) = l
                 /\ \A j \in 1..(k - 1) : detectLanguage(codeFiles[j].path) # l)

SessionContent(file) ==
    IF file.path \in DOMAIN modifiedFiles THEN modifiedFiles[file.path]
    ELSE file.content

\* the number of lines of a text, none for the empty text
LinesOf(text) ==
    IF text = "" THEN 0 ELSE Cardinality({ i \in 1..Len(text) : SubSeq(text, i, i) = "\n" }) + 1

\* the files of the session that are no directory and neither deleted nor
\* under a deleted directory
RemainingFiles ==
    { i \in 1..Len(route.files) :
        /\ ~route.files[i].isDirectory
        /\ route.files[i].path \notin deletedFiles
        /\ \A d \in deletedFiles : ~StartsWith(route.files[i].path, d \o "/") }

RECURSIVE LinesOfAll(_)
LinesOfAll(indices) ==
    IF indices = {} THEN 0
    ELSE LET i == CHOOSE j \in indices : TRUE
         IN  LinesOf(SessionContent(route.files[i])) + LinesOfAll(indices \ {i})

\* the total line count of the non-deleted files with the edits applied
SessionLines == LinesOfAll(RemainingFiles)

C26_Step ==
    /\ (~showSubmissionModal /\ showSubmissionModal') => SessionLines >= MIN_LINES
    /\ download' # download => SessionLines >= MIN_LINES

\* C26 as stated: the submission modal is opened, and a download is started,
\* only in a state where the total line count of the non-deleted files, with
\* the edits applied, is at least 5,000.
C26_GateBeforeDownload == [][C26_Step]_vars

\* the extracted content of the file with this path
ExtractedContent(p) ==
    LET i == CHOOSE j \in 1..Len(route.files) : route.files[j].path = p
    IN  route.files[i].content

\* C27 as stated: after a download, the text of the JSONL record and the
\* content of the packaged sample of every edited file are the last edit made
\* to its path, the empty string included, and those of a file never edited
\* are its extracted content.
C27_EditsReachDownload ==
    saved # <<>> =>
        /\ \A k \in 1..Len(saved[1].samples) :
              saved[1].samples[k].content = SessionContent(saved[1].samples[k])
        /\ \A k \in 1..Len(saved[1].samples) :
              saved[1].samples[k].path \notin DOMAIN modifiedFiles =>
                  saved[1].samples[k].content = ExtractedContent(saved[1].samples[k].path)
        /\ \A k \in 1..Len(RecordsIn(saved[1].jsonlContent)) :
              LET record == RecordsIn(saved[1].jsonlContent)[k]
              IN  record[6] = IF record[4] \in DOMAIN modifiedFiles
                              THEN modifiedFiles[record[4]]
                              ELSE ExtractedContent(record[4])

\* the path is a deleted path or lies under a deleted directory
Deleted(p) ==
    \/ p \in deletedFiles
    \/ \E d \in deletedFiles : Len(p) > Len(d) /\ SubSeq(p, 1, Len(d) + 1) = d \o "/"

\* the paths in the samples, the JSONL records and the exclusion log of the
\* download made
DownloadedPaths ==
    { saved[1].samples[k].path : k \in 1..Len(saved[1].samples) }
        \cup { RecordsIn(saved[1].jsonlContent)[k][4] :
                   k \in 1..Len(RecordsIn(saved[1].jsonlContent)) }
        \cup { encoded[1].exclusionLog[k].path : k \in 1..Len(encoded[1].exclusionLog) }

\* after a download: no deleted path among its paths, and every file of
\* the session that is not deleted among them
DownloadLeavesOutDeleted ==
    saved # <<>> =>
        /\ \A p \in DownloadedPaths : ~Deleted(p)
        /\ \A i \in 1..Len(route.files) :
              (~route.files[i].isDirectory /\ ~Deleted(route.files[i].path)) =>
                  route.files[i].path \in DownloadedPaths

C28_Step == deletedFiles \subseteq deletedFiles'

\* C28: a step never takes a path out of deletedFiles; after a download no
\* path that is deleted or lies under a deleted path (deleted + "/") is
\* among the samples, the JSONL records or the exclusion log, and every
\* other file of the session is among them, so that a file such as
\* src2/a.ts is kept when src is deleted.
C28_DeletedStayOut == [][C28_Step]_vars /\ []DownloadLeavesOutDeleted

\* src has been deleted and a download made: src2/a.ts is in the JSONL
\* records, src/a.ts and src/b.py are nowhere
C28_Witness ==
    /\ "src" \in deletedFiles
    /\ saved # <<>>
    /\ \E k \in 1..Len(RecordsIn(saved[1].jsonlContent)) :
          RecordsIn(saved[1].jsonlContent)[k][4] = "src2/a.ts"
    /\ "src/a.ts" \notin DownloadedPaths
    /\ "src/b.py" \notin DownloadedPaths

\* the state an invocation that has finished left the hook in
FinalStateOf(i) ==
    IF runs[i].pc = "succeeded" THEN {Completed(runs[i].summary[1])}
    ELSE IF runs[i].pc = "failed"
    THEN { Failed(download, ErrorMessageOf(thrown)) : thrown \in ZipRejections \cup {NoCodeFiles} }
    ELSE {}

\* C29 as stated: while an invocation of downloadAll has started and has
\* neither succeeded nor failed, the hook says isDownloading, at a progress
\* below 100 and with no downloadSummary, whatever other invocations have
\* done in between; once every invocation has finished, progress, error and
\* downloadSummary are those an invocation finished with.
C29_BusyWhileInFlight ==
    /\ InFlight # {} =>
          /\ download.isDownloading
          /\ download.progress < 100
          /\ download.downloadSummary = <<>>
    /\ (InFlight = {} /\ runs[1].pc # "idle") =>
          \E i \in 1..MaxRuns : download \in FinalStateOf(i)

\* C30 as stated: after handleZipUpload its promise is fulfilled; when the
\* extraction failed the handler state has isLoading false, progress 0, no
\* files and an error, and the value is success=false, files=[] and that
\* error; when it succeeded the state has isLoading false, progress 100, no
\* error and the extracted files, and the value is success=true.
C30_UploadAlwaysResolves ==
    extraction # <<>> =>
        /\ ~zipState.isLoading
        /\ uploadResult[1].status = "fulfilled"
        /\ IF extraction[1].success
           THEN /\ zipState.progress = 100
                /\ zipState.error = <<>>
                /\ zipState.files = extraction[1].files
                /\ uploadResult[1].value[1].success
           ELSE /\ zipState.progress = 0
                /\ zipState.files = <<>>
                /\ zipState.error # <<>>
                /\ ~uploadResult[1].value[1].success
                /\ uploadResult[1].value[1].files = <<>>
                /\ uploadResult[1].value[1].error = zipState.error

====
